---- MODULE Spec2Model ----
(***************************************************************************)
(* Model of the message-history reconstruction and tool-dispatch loop of   *)
(* the MTG trades agent: gptAgent.sendMessage (classifier + two phases)    *)
(* and streamHandler.sendMessage (single prompt, streaming), together with *)
(* the tool executors they dispatch to.                                    *)
(*                                                                         *)
(* A conversation is a sequence of turns.  The service is stateless: the   *)
(* client posts {message, messages} and gets the updated history back,     *)
(* which it resends on the next turn.  The LLM, the card search API and    *)
(* the tracker backend are the environment: their replies are chosen       *)
(* nondeterministically from small sets.                                   *)
(***************************************************************************)
EXTENDS Integers, Sequences, FiniteSets, TLC

(* ------------------------------ bounds -------------------------------- *)
\* turns played in one conversation
MaxTurns == 2
\* items (messages and function calls) in the output of one model response
MaxItems == 2
\* batches of tool calls executed in one turn
MaxRounds == 1
\* call_ids the model API hands out in one conversation
MaxCallId == 3
\* candidates returned by one card search
MaxCards == 2
\* requests the process serves at the same time
NumRequests == 2
\* turns of a long conversation
LongTurns == 8
\* entries between the leading and trailing messages of a posted history
MaxHistory == 7

(* --------------------------- program constants ------------------------ *)
\* streamHandler.js:237  "count < 5"
Retain == 5

(* ------------------------------ messages ------------------------------ *)
\* One entry of the history.  Absent fields are "" (or 0 for call_id).
\* content stands for content / arguments / output, whichever the entry has.
Msg(role, type, name, call_id, content) ==
  [role |-> role, type |-> type, name |-> name, call_id |-> call_id, content |-> content]

SystemMsg(content) == Msg("system", "", "", 0, content)

\* streamHandler.js:281, the standing developer instruction
StandingDeveloperMsg == Msg("developer", "", "", 0, "standing_instruction")

\* streamHandler.js:390, pushed after every non-search tool result
TrackerDeveloperMsg == Msg("developer", "", "", 0, "tracker_completed")

\* gptAgent.js:206 / streamHandler.js:283: { role: "user", content: userInput }
UserMsgOf(input) == Msg("user", "", "", 0, input)

UserMsg == Msg("user", "", "", 0, "user_input")

\* an output item of type message of the Responses API: its content is a
\* list of content-part objects
ModelMessage == Msg("assistant", "message", "", 0, "content_parts")

\* gptAgent.js:296-299, content is the list of full card records
DetailsMsg == Msg("assistant", "", "", 0, "card_details")

\* an assistant entry with plain string content (only a client can send one)
TextAssistantMsg == Msg("assistant", "", "", 0, "plain_text")

FunctionCall(name, call_id, arguments) == Msg("", "function_call", name, call_id, arguments)

FunctionCallOutput(call_id, output) == Msg("", "function_call_output", "", call_id, output)

\* Array.isArray(content) && content.every(obj => typeof obj === "object" && obj !== null)
IsObjectArray(content) == content \in {"content_parts", "card_details"}

(* ------------------------------- tools -------------------------------- *)
SCRYFALL == "scryfall_search"
SINGLECARD == "local_singlecard"
TRACKER == "tracker_getCard"
BOGUS == "bogus_tool"

\* names the model may put in a function_call
ToolNames == {SCRYFALL, SINGLECARD, TRACKER, BOGUS}

\* toolName.startsWith("tracker_")
StartsWithTracker(name) == name \in {TRACKER}

\* a tool catalog: the list of descriptors, or undefined
Catalog(names) == [defined |-> TRUE, names |-> names]
UndefinedCatalog == [defined |-> FALSE, names |-> {}]

scryfallTool == {SCRYFALL}
vectorStoreTool == {"file_search"}

\* fetchTrackerFunctions answering with the tracker descriptors of an earlier
\* load when the swagger load fails
fetchTrackerFunctionsStale(schemaOk) == IF schemaOk THEN {TRACKER} ELSE {TRACKER}

\* tools.js:88-135; the swagger load fails -> []
fetchTrackerFunctions(schemaOk) == IF schemaOk THEN {TRACKER} ELSE {}


(* ----------------------------- executors ------------------------------ *)
\* The repository holds two versions of the executor registry: the current
\* executors.js (local_singlecard commented out, lines 22-25) and an earlier
\* one that still registers local_singlecard.
ExecutorFiles == {"executors.js", "part_001"}

\* gptAgent.js:233-238 / streamHandler.js:339-344; "" stands for undefined
LookupExecutor(file, toolName) ==
  IF StartsWithTracker(toolName) THEN "tracker_dynamic"
  ELSE IF toolName = SCRYFALL THEN SCRYFALL
  ELSE IF toolName = SINGLECARD /\ file = "part_001" THEN SINGLECARD
  ELSE ""

\* what the backend-facing part of tracker_dynamic can do
TrackerOutcomes == {"success", "token_fail", "schema_fail", "operation_fail"}

\* gptAgent.js:247-249: executor(toolName, args), so the third parameter
\* bearerToken of tracker_dynamic is undefined ("")
PassedBearerToken == ""

\* executors.js:34-36: if (!bearerToken) bearerToken = await getBearerToken(),
\* and getBearerToken (157-175) requests /gettoken each time it is called
ExchangesToken(bearerToken) == bearerToken = ""

\* executors.js:109-113 -> {status, message}; part_001:88-91 -> {status} or {error}
tracker_dynamic(file, outcome) ==
  IF outcome = "success" THEN "status_success"
  ELSE IF file = "part_001" THEN "error_without_status"
  ELSE "status_error_message"

\* part_001:130-133 storeSingleCard echoes its arguments
storeSingleCard == "status_success_card"

\* executors.js:145-149: JSON.stringify(result.summary) for n returned cards
SummaryOutput(n) ==
  IF n = 0 THEN "summary_0" ELSE IF n = 1 THEN "summary_1" ELSE "summary_many"

\* outcomes of scryfallSearch: -1 = the fetch (or res.json()) throws,
\* n >= 0 = json.data holds n cards
SearchOutcomes == (-1) .. MaxCards

(* ---------------------- the query of scryfallSearch ------------------- *)
\* A string is the sequence of its characters; the fixed pieces of the
\* query ("name:", "game:paper", ...) are single symbols.
Undefined == <<"undefined">>

\* texts a filter argument may hold: empty, one word, two words, a word
\* after leading whitespace
Texts == {<<>>, <<"a">>, <<"a", " ", "b">>, <<" ", "a">>}

TextArgs == Texts \cup {Undefined}

\* tools.js:35-38: set is a "set code or name", a name may have several words
SetArgs == TextArgs

\* tools.js:19-22
ReservedArgs == {"undefined", "true", "false"}

\* tools.js:27-34
ColorArgs == {Undefined, <<>>, <<"R">>, <<"R", "G">>}

\* the destructured parameter of executors.js:117 (page, order and dir go
\* into URL parameters of their own, lines 137-139, not into the query)
SearchArgs ==
  [name : TextArgs, oracle_text : TextArgs, type : TextArgs, reserved : ReservedArgs,
   colors : ColorArgs, set : SetArgs]

\* scryfallSearch({})
NoArgs ==
  [name |-> Undefined, oracle_text |-> Undefined, type |-> Undefined,
   reserved |-> "undefined", colors |-> Undefined, set |-> Undefined]

\* if (name), if (colors && colors.length > 0): undefined, "" and [] fail
Truthy(v) == v # Undefined /\ v # <<>>

RECURSIVE SplitAt(_, _, _)
\* String.prototype.split(/\s+/): cur is the word being read, sep says that
\* the previous character was whitespace
SplitAt(s, cur, sep) ==
  IF s = <<>> THEN <<cur>>
  ELSE IF Head(s) = " "
       THEN IF sep THEN SplitAt(Tail(s), cur, TRUE)
            ELSE <<cur>> \o SplitAt(Tail(s), <<>>, TRUE)
       ELSE SplitAt(Tail(s), Append(cur, Head(s)), FALSE)

Split(s) == SplitAt(s, <<>>, FALSE)

\* `${op}"${v}"`
Quoted(op, v) == <<op, "\"">> \o v \o <<"\"">>

\* executors.js:120-129: one quoted term per non-empty word
WordTerms(op, text) ==
  IF Truthy(text)
  THEN LET words == SelectSeq(Split(text), LAMBDA w : w # <<>>)
       IN [k \in 1 .. Len(words) |-> Quoted(op, words[k])]
  ELSE <<>>

\* executors.js:118-134: the query array
QueryArray(args) ==
  (IF Truthy(args.name) THEN <<Quoted("name:", args.name)>> ELSE <<>>)
  \o WordTerms("o:", args.oracle_text)
  \o WordTerms("t:", args.type)
  \o (IF args.reserved = "true" THEN << <<"is:reserved">> >> ELSE <<>>)
  \o (IF Truthy(args.colors) THEN <<Quoted("c:", args.colors)>> ELSE <<>>)
  \o (IF Truthy(args.set) THEN << <<"set:">> \o args.set >> ELSE <<>>)
  \o << <<"game:paper">>, <<"unique:prints">> >>

RECURSIVE Join(_)
\* Array.prototype.join(" ")
Join(terms) ==
  IF terms = <<>> THEN <<>>
  ELSE IF Len(terms) = 1 THEN terms[1]
  ELSE terms[1] \o <<" ">> \o Join(Tail(terms))

\* executors.js:135-136: the q parameter of the request
scryfallSearchQuery(args) == Join(QueryArray(args))

(* ---------------------- one tracker_dynamic call ---------------------- *)
\* The backend's schema is a sequence of operations, one per path and method
\* in the order Object.entries walks them. An operation is
\*   [operationId, method, path, parameters, requestBody]
\* with operationId Undefined when the schema gives none, parameters a set of
\* [name, in] and requestBody [declared, properties]. Names are sequences of
\* tokens, so that the prefix and the escaped path are built and stripped as
\* the code builds and strips them.

\* tools.js:120: path.replace(/[\/{}]/g, "_")
EscapePath(path) ==
  [i \in 1 .. Len(path) |-> IF path[i] \in {"/", "{", "}"} THEN "_" ELSE path[i]]

\* tools.js:120: the name of the descriptor of one operation
DescriptorName(details) ==
  IF details.operationId # Undefined
    THEN <<"tracker_">> \o details.operationId
    ELSE <<"tracker_", details.method, "_">> \o EscapePath(details.path)

\* tools.js:102-116: the properties of the descriptor of one operation: every
\* parameter, whatever its location, then the properties of the body schema
paramProps(details) ==
  {p.name : p \in details.parameters}
    \cup (IF details.requestBody.declared THEN details.requestBody.properties ELSE {})

\* tools.js:95-129: one descriptor per operation
TrackerDescriptors(paths) ==
  [i \in 1 .. Len(paths) |->
     [name |-> DescriptorName(paths[i]), properties |-> paramProps(paths[i])]]

\* executors.js:31: toolName.replace(/^tracker_/, "")
operationIdOf(toolName) ==
  IF Len(toolName) > 0 /\ Head(toolName) = "tracker_" THEN Tail(toolName) ELSE toolName

\* executors.js:47-56: the operation whose operationId is the stripped name,
\* 0 (opSpec undefined) if there is none; the break leaves the inner loop
\* only, so the last path that matches wins
opSpecOf(paths, operationId) ==
  LET hits == {i \in 1 .. Len(paths) : paths[i].operationId = operationId}
  IN  IF hits = {} THEN 0 ELSE CHOOSE i \in hits : \A k \in hits : k <= i

\* a request body that is not sent
NoRequestBody == [sent |-> FALSE, keys |-> {}]

\* arguments of a call: the top-level keys other than body, and args.body
\* (given or not, with its keys)
ArgsOf(top, given, keys) == [top |-> top, body |-> [given |-> given, keys |-> keys]]

\* executors.js:59-67: the arguments forwarded as parameters
paramArgs(paths, opSpec, args) ==
  IF opSpec = 0 THEN {}
  ELSE {p.name : p \in {d \in paths[opSpec].parameters :
                          d["in"] \in {"path", "query"} /\ d.name \in args.top}}

\* executors.js:68-79 and 85: the request body forwarded. args.body, an
\* object, is truthy even when empty; a top-level collection that stays
\* empty is undefined and not sent
requestBodyOf(paths, opSpec, args) ==
  IF opSpec = 0 \/ ~paths[opSpec].requestBody.declared THEN NoRequestBody
  ELSE IF args.body.given THEN [sent |-> TRUE, keys |-> args.body.keys]
  ELSE LET collected == paths[opSpec].requestBody.properties \cap args.top
       IN  IF collected = {} THEN NoRequestBody
           ELSE [sent |-> TRUE, keys |-> collected]

\* A response body: nothing, a text, or an object with or without a scryfall
\* sub-object and with the children ChildKeys, each a text, an object or an
\* object with a scryfall sub-object. name is "own" for the name the object
\* came with (or none) and "scryfall" for the name of its scryfall sub-object.
ChildKeys == {"first", "second"}

PlainChild == [kind |-> "object", scryfall |-> FALSE, name |-> "own"]
CardChild == [kind |-> "object", scryfall |-> TRUE, name |-> "own"]
TextChild == [kind |-> "text", scryfall |-> FALSE, name |-> "own"]

NoBody == [kind |-> "none", scryfall |-> FALSE, name |-> "own",
           children |-> [k \in ChildKeys |-> TextChild]]
TextBody == [NoBody EXCEPT !.kind = "text"]

\* executors.js:100-103: one child of the response
normalizeItem(item) ==
  IF item.kind = "object" /\ item.scryfall
    THEN [item EXCEPT !.name = "scryfall", !.scryfall = FALSE]
    ELSE item

\* executors.js:87-107: the scryfall sub-object of the response is collapsed
\* into name; the children are looked at only when the response itself has
\* no scryfall key
normalizeBody(body) ==
  IF body.kind # "object" THEN body
  ELSE IF body.scryfall THEN [body EXCEPT !.name = "scryfall", !.scryfall = FALSE]
  ELSE [body EXCEPT !.children = [k \in ChildKeys |-> normalizeItem(body.children[k])]]

\* no tracker_dynamic call
NoTrackerCall ==
  [paths |-> <<>>, toolName |-> <<>>, args |-> ArgsOf({}, FALSE, {}),
   body |-> NoBody, found |-> FALSE]
NoTrackerResult ==
  [done |-> FALSE, opSpec |-> 0, parameters |-> {}, requestBody |-> NoRequestBody,
   executed |-> 0, status |-> "", message |-> NoBody]

\* executors.js:82-86: client.execute looks the operation up by operationId
\* in the schema; for a name no operation carries as its operationId the
\* outcome is the library's (found says which): it throws or it resolves
\* the operation by an identifier of its own
executeOf(c) ==
  LET byId == opSpecOf(c.paths, operationIdOf(c.toolName))
      byName == {i \in 1 .. Len(c.paths) : DescriptorName(c.paths[i]) = c.toolName}
  IN  IF byId # 0 THEN byId
      ELSE IF c.found /\ byName # {} THEN CHOOSE i \in byName : TRUE
      ELSE 0

\* executors.js:27-114
trackerDynamicResult(c) ==
  LET operationId == operationIdOf(c.toolName)
      opSpec == opSpecOf(c.paths, operationId)
      executed == executeOf(c)
  IN  [done |-> TRUE,
       opSpec |-> opSpec,
       parameters |-> paramArgs(c.paths, opSpec, c.args),
       requestBody |-> requestBodyOf(c.paths, opSpec, c.args),
       executed |-> executed,
       status |-> IF executed = 0 THEN "error" ELSE "success",
       message |-> IF executed = 0 THEN TextBody ELSE normalizeBody(c.body)]

(* --------------------------- History Curator -------------------------- *)
Last(s) == s[Len(s)]

Front(s) == SubSeq(s, 1, Len(s) - 1)

\* PopDetails without the pop: the trailing message always stays
PopDetailsNever(h) == h

\* gptAgent.js:184-191 / streamHandler.js:218-225
PopDetails(h) ==
  IF Len(h) > 0 /\ Last(h).role = "assistant" /\ IsObjectArray(Last(h).content)
  THEN Front(h) ELSE h

\* ShiftRole without the shift: the leading message always stays
ShiftRoleNever(h, role) == h

\* gptAgent.js:193-195 / streamHandler.js:227-233
ShiftRole(h, role) == IF Len(h) > 0 /\ h[1].role = role THEN Tail(h) ELSE h

\* gptAgent.js:182-195
CurateGpt(h) == ShiftRole(PopDetails(h), "system")

IsChat(m) == m.role = "user" \/ m.role = "assistant"

IsOther(m) == ~IsChat(m)

\* LastN taking the window from the front: the first n entries of s
LastNFirst(s, n) == IF Len(s) <= n THEN s ELSE SubSeq(s, 1, n)

\* the last n entries of s
LastN(s, n) == IF Len(s) <= n THEN s ELSE SubSeq(s, Len(s) - n + 1, Len(s))

\* streamHandler.js:216-248
CurateStream(h) ==
  LET c == ShiftRole(ShiftRole(PopDetails(h), "system"), "developer")
  IN SelectSeq(c, IsOther) \o LastN(SelectSeq(c, IsChat), Retain)

(* ------------------------ pruning inside the loop --------------------- *)
RemoveAt(s, i) == SubSeq(s, 1, i - 1) \o SubSeq(s, i + 1, Len(s))

\* PruneCond without the comparison of names: every earlier call and every
\* earlier output of a call goes
PruneCondAnyName(msgs, m, name, call_id) ==
  \/ m.type = "function_call" /\ m.call_id # call_id
  \/ /\ m.type = "function_call_output"
     /\ m.call_id # call_id
     /\ \E k \in 1 .. Len(msgs) : msgs[k].call_id = m.call_id /\ msgs[k].type = "function_call"

\* the splice condition of gptAgent.js:255-258 and 271-274, evaluated on
\* the array as it is at that moment
PruneCond(msgs, m, name, call_id) ==
  \/ m.type = "function_call" /\ m.name = name /\ m.call_id # call_id
  \/ /\ m.type = "function_call_output"
     /\ m.call_id # call_id
     /\ \E k \in 1 .. Len(msgs) : msgs[k].call_id = m.call_id /\ msgs[k].name = name

RECURSIVE PruneFrom(_, _, _, _)
\* for (let i = messages.length - 1; i >= 0; i--) ... messages.splice(i, 1)
PruneFrom(msgs, i, name, call_id) ==
  IF i = 0 THEN msgs
  ELSE IF PruneCond(msgs, msgs[i], name, call_id)
       THEN PruneFrom(RemoveAt(msgs, i), i - 1, name, call_id)
       ELSE PruneFrom(msgs, i - 1, name, call_id)

\* Prune without the loop: nothing is spliced out
PruneNever(msgs, name, call_id) == msgs

Prune(msgs, name, call_id) == PruneFrom(msgs, Len(msgs), name, call_id)

(* ------------------------------ routing ------------------------------- *)
\* what the classifier model may answer
ClassifierReplies == {"not_json", "no_step_field", "step_1", "step_2", "step_3"}

\* gptAgent.js:110-114; 0 stands for undefined
classifyStep(reply) ==
  IF reply = "not_json" THEN 1
  ELSE IF reply = "step_1" THEN 1
  ELSE IF reply = "step_2" THEN 2
  ELSE IF reply = "step_3" THEN 3
  ELSE 0

\* gptAgent.js:121-128.  tools.js exports no singlecardTool (lines 66-86 are
\* commented out, line 137), so spreading it for step 1 throws a TypeError.
getToolsForStep(step, schemaOk) ==
  IF step = 1 THEN [throws |-> TRUE, catalog |-> UndefinedCatalog]
  ELSE IF step = 2 THEN [throws |-> FALSE, catalog |-> Catalog(fetchTrackerFunctions(schemaOk))]
  ELSE [throws |-> FALSE, catalog |-> UndefinedCatalog]

\* gptAgent.js:132-166 and 199
SystemContentFor(step) ==
  IF step = 1 THEN "gpt_identify" ELSE IF step = 2 THEN "gpt_operate" ELSE "fallback"

\* streamHandler.js:121-129, always called with "full" (lines 264-271, 395)
getTools(schemaOk) == Catalog(scryfallTool \cup vectorStoreTool \cup fetchTrackerFunctions(schemaOk))

\* gptAgent.js:56-85: the history as the classifier sees it
ClassifierView(m) ==
  IF m.type = "function_call_output" THEN Msg("tool", "", "", m.call_id, m.content)
  ELSE IF m.type = "function_call" THEN Msg("assistant", "", m.name, m.call_id, m.content)
  ELSE m

IsClassifierRelevant(m) ==
  m.role = "user" \/ m.role = "assistant" \/ m.type = "function_call_output" \/ m.type = "function_call"

ClassifierInput(h) ==
  LET f == SelectSeq(h, IsClassifierRelevant)
  IN <<SystemMsg("classifier")>> \o [k \in 1 .. Len(f) |-> ClassifierView(f[k])] \o <<UserMsg>>

\* EarlyExit with the threshold off by one: a single candidate already exits
EarlyExitOnSingle(name, cards) == name = SCRYFALL /\ cards > 0

\* gptAgent.js:295 / streamHandler.js:401; lastScryfallResult is the number
\* of summary entries, -1 when it is still the initial []
EarlyExit(name, cards) == name = SCRYFALL /\ cards > 1

\* SkipCall with the missing executor treated as fatal
SkipCallAborts(msgs) == [aborted |-> TRUE, messages |-> msgs]

\* gptAgent.js:240-243: log and continue
SkipCall(msgs) == [aborted |-> FALSE, messages |-> msgs]


(* ------------------------------- state -------------------------------- *)
VARIABLES
  handler,            \* which sendMessage serves the conversation
  executorsFile,      \* which executor registry is loaded
  clientHistory,      \* the messages array the client will post next
  turn,               \* turns started so far
  pc,                 \* position of the request: idle, classifying,
                      \* awaiting_model, executing, done, failed
  incomingMessages,   \* the curated incoming history of this turn
  messages,           \* the working history
  functionCalls,      \* calls of the current batch not yet processed
  batch,              \* the current batch as the model emitted it
  lastToolName,
  lastScryfallResult,
  intent,
  systemContent,
  tools,
  lastCall,           \* the latest request sent to the model API
  classifierReply,    \* what the classifier answered in this turn
  nextId,             \* next call_id the model API hands out
  round,              \* batches executed in this turn
  modelCalls,         \* tool-enabled model calls issued in this turn
  executed,           \* call_ids of this batch whose executor returned
  tokenExchanges,     \* requests to /gettoken in this process
  failure,            \* why the turn threw, "" if it did not
  schemaLoad,         \* how the latest swagger load of this turn went
  userInput,          \* req.body.message of the latest request
  response,           \* the HTTP response of the latest request
  openaiApiKey,       \* gptAgent.js:25, module level, "" is null
  client,             \* gptAgent.js:39, module level, "" is null
  cachedCredentials,  \* executors.js:6, module level, "" is null
  secretFetches,      \* GetSecretValue requests sent, per secret
  req,                \* per concurrent request: the position and locals of
                      \* its sendMessage invocation
  reqMessages,        \* per concurrent request: its messages array
  searchArgs,         \* the arguments of a scryfallSearch call
  q,                  \* the q parameter that call sent, "" before it
  modelOutput,        \* response.output of the latest model response of the
                      \* turn: how many message and function_call items
  trackerCall,        \* a tracker_dynamic call: the backend's operations, the
                      \* tool name, the arguments, the backend's response body
  trackerResult       \* what that call forwarded and returned

\* the state of one conversation served request by request
mainVars == <<handler, executorsFile, clientHistory, turn, pc, incomingMessages, messages,
              functionCalls, batch, lastToolName, lastScryfallResult, intent, systemContent,
              tools, lastCall, classifierReply, nextId, round, modelCalls, executed,
              tokenExchanges, failure, schemaLoad, userInput, response>>

\* the module-level variables and the requests running side by side
raceVars == <<openaiApiKey, client, cachedCredentials, secretFetches, req, reqMessages>>

\* one call of scryfallSearch
searchVars == <<searchArgs, q>>

\* one call of tracker_dynamic
trackerVars == <<trackerCall, trackerResult>>

vars == <<mainVars, raceVars, searchVars, modelOutput, trackerVars>>

\* how POST requests reach a sendMessage.  "gptAgent": POST / calls
\* gptAgent.sendMessage(message, messages) (part_000:96-108).
\* "streamHandler": POST /api/stream is streamHandler.sendMessage(req, res)
\* (part_000:193).  "postRoot": POST / as index.js:27 wires it, gptAgent(),
\* where gptAgent is the module object, and as part_000:201 wires it,
\* sendMessage(message, messages) with the (req, res) handler of
\* streamHandler.js; both calls throw a TypeError inside the try block.
Handlers == {"gptAgent", "streamHandler", "postRoot"}

\* req.body.message: a text, or absent
UserInputs == {"user_input", "undefined"}

\* an HTTP response: status line, whether it was ended, what the body holds
Response(status, ended, body) == [status |-> status, ended |-> ended, body |-> body]

NoResponse == Response(0, FALSE, "none")

\* streamHandler.js:209-212: the headers are flushed, the status is 200
StreamOpen == Response(200, FALSE, "frames")

\* outcome of fetchTrackerFunctions as the swagger load went
LoadResult(schemaOk) == IF schemaOk THEN "loaded" ELSE "failed"

\* no model response yet
NoOutput == [messages |-> 0, calls |-> 0]

NoCall == [kind |-> "none", input |-> <<>>, tools |-> UndefinedCatalog]

ModelCall(kind, input, catalog) == [kind |-> kind, input |-> input, tools |-> catalog]

\* the request-scoped variables before a request has started
TurnReset ==
  /\ modelOutput' = NoOutput
  /\ incomingMessages' = <<>>
  /\ messages' = <<>>
  /\ functionCalls' = <<>>
  /\ batch' = <<>>
  /\ lastToolName' = ""
  /\ lastScryfallResult' = -1
  /\ intent' = 0
  /\ systemContent' = ""
  /\ tools' = UndefinedCatalog
  /\ lastCall' = NoCall
  /\ classifierReply' = ""
  /\ round' = 0
  /\ modelCalls' = 0
  /\ executed' = <<>>
  /\ failure' = ""
  /\ schemaLoad' = "none"

\* the requests that run side by side
Requests == 1 .. NumRequests

\* a sendMessage invocation that has not run yet: its position, the calls
\* of the batch not yet dispatched, the batch as emitted, the executors in
\* flight (call and stage), the call_ids of the batch in the order their
\* executors started and returned, and the calls and tool outputs of the
\* whole invocation
NewRequest ==
  [pos |-> "start", functionCalls |-> <<>>, batch |-> <<>>, running |-> {},
   started |-> <<>>, returned |-> <<>>, calls |-> <<>>, outputs |-> <<>>, round |-> 0]

\* gptAgent.js:25, 39 and executors.js:6: let ... = null
InitRace ==
  /\ openaiApiKey = ""
  /\ client = ""
  /\ cachedCredentials = ""
  /\ secretFetches = [key |-> 0, credentials |-> 0]
  /\ req = [r \in Requests |-> NewRequest]
  /\ reqMessages = [r \in Requests |-> <<>>]

\* no scryfallSearch call is looked at
InitNoSearch ==
  /\ searchArgs = NoArgs
  /\ q = <<>>

\* no tracker_dynamic call is looked at
InitNoTracker ==
  /\ trackerCall = NoTrackerCall
  /\ trackerResult = NoTrackerResult

Init ==
  /\ handler \in Handlers
  /\ executorsFile \in ExecutorFiles
  /\ clientHistory = <<>>
  /\ turn = 0
  /\ pc = "idle"
  /\ incomingMessages = <<>>
  /\ messages = <<>>
  /\ functionCalls = <<>>
  /\ batch = <<>>
  /\ lastToolName = ""
  /\ lastScryfallResult = -1
  /\ intent = 0
  /\ systemContent = ""
  /\ tools = UndefinedCatalog
  /\ lastCall = NoCall
  /\ classifierReply = ""
  /\ nextId = 1
  /\ round = 0
  /\ modelCalls = 0
  /\ executed = <<>>
  /\ tokenExchanges = 0
  /\ failure = ""
  /\ schemaLoad = "none"
  /\ userInput = ""
  /\ response = NoResponse
  /\ InitRace
  /\ InitNoTracker
  /\ modelOutput = NoOutput
  /\ InitNoSearch

(* ------------------------------ actions ------------------------------- *)
\* the exception leaves sendMessage; msgs is the working history at the throw
Throw(cause, msgs) ==
  /\ pc' = "failed"
  /\ failure' = cause
  /\ messages' = msgs

\* gptAgent.js:178-197: curate, then ask the classifier
RequestGpt ==
  /\ UNCHANGED <<raceVars, searchVars, trackerVars, modelOutput>>
  /\ pc = "idle" /\ turn < MaxTurns /\ handler = "gptAgent"
  /\ turn' = turn + 1
  /\ userInput' = "user_input"
  /\ response' = NoResponse
  /\ incomingMessages' = CurateGpt(clientHistory)
  /\ lastCall' = ModelCall("classify", ClassifierInput(incomingMessages'), UndefinedCatalog)
  /\ pc' = "classifying"
  /\ UNCHANGED <<handler, executorsFile, clientHistory, messages, functionCalls, batch,
                 lastToolName, lastScryfallResult, intent, systemContent, tools,
                 classifierReply, nextId, round, modelCalls, executed, tokenExchanges,
                 failure, schemaLoad>>

\* gptAgent.js:110-114 and 197-215: the classifier has answered; select tools
\* and prompt, build the history, issue the initial model call
ClassifyReply ==
  /\ UNCHANGED <<raceVars, searchVars, trackerVars, modelOutput>>
  /\ pc = "classifying"
  /\ \E reply \in ClassifierReplies, schemaOk \in BOOLEAN :
       LET step == classifyStep(reply)
           got == getToolsForStep(step, schemaOk)
           msgs == <<SystemMsg(SystemContentFor(step))>> \o incomingMessages \o <<UserMsg>>
       IN /\ classifierReply' = reply
          /\ intent' = step
          /\ schemaLoad' = IF step = 2 THEN LoadResult(schemaOk) ELSE schemaLoad
          /\ IF got.throws
             THEN /\ Throw("catalog", <<>>)
                  /\ UNCHANGED <<systemContent, tools, lastCall, modelCalls>>
             ELSE /\ tools' = got.catalog
                  /\ systemContent' = SystemContentFor(step)
                  /\ messages' = msgs
                  /\ lastCall' = ModelCall("initial", msgs, got.catalog)
                  /\ modelCalls' = 1
                  /\ pc' = "awaiting_model"
                  /\ UNCHANGED failure
  /\ UNCHANGED <<handler, executorsFile, clientHistory, turn, incomingMessages, functionCalls,
                 batch, lastToolName, lastScryfallResult, nextId, round, executed,
                 tokenExchanges, userInput, response>>

\* streamHandler.js:203-294: curate, fetch the catalog, build the history,
\* issue the initial model call
RequestStreamUpTo(maxTurns) ==
  /\ UNCHANGED <<raceVars, searchVars, trackerVars, modelOutput>>
  /\ pc = "idle" /\ turn < maxTurns /\ handler = "streamHandler"
  /\ turn' = turn + 1
  /\ \E schemaOk \in BOOLEAN, input \in UserInputs :
       LET curated == CurateStream(clientHistory)
           msgs == <<SystemMsg("stream_prompt"), StandingDeveloperMsg>> \o curated
                     \o <<UserMsgOf(input)>>
       IN /\ userInput' = input
          /\ schemaLoad' = LoadResult(schemaOk)
          /\ incomingMessages' = curated
          /\ tools' = getTools(schemaOk)
          /\ systemContent' = "stream_prompt"
          /\ messages' = msgs
          /\ lastCall' = ModelCall("initial", msgs, tools')
  /\ response' = StreamOpen
  /\ modelCalls' = 1
  /\ pc' = "awaiting_model"
  /\ UNCHANGED <<handler, executorsFile, clientHistory, functionCalls, batch, lastToolName,
                 lastScryfallResult, intent, classifierReply, nextId, round, executed,
                 tokenExchanges, failure>>

\* a conversation of at most MaxTurns turns
RequestStream == RequestStreamUpTo(MaxTurns)

\* what the model may ask for in one function_call item; JSON.parse runs
\* before the tool name is looked at, so one name with malformed arguments
\* stands for all
CallShapes ==
  [name : ToolNames, arguments : {"valid_json"}] \cup [name : {TRACKER}, arguments : {"malformed"}]

Batches == UNION {[1 .. n -> CallShapes] : n \in 0 .. MaxItems}

\* the function_call items of a response, with the call_ids the API gives them
WithIds(shapes, first) ==
  [k \in 1 .. Len(shapes) |-> FunctionCall(shapes[k].name, first + k - 1, shapes[k].arguments)]

Repeat(m, n) == [k \in 1 .. n |-> m]

\* gptAgent.js:219-223 (initial: find, the first message item only) and
\* 311-314 (follow-up: filter, every message item); an empty batch ends the
\* while loop and the history is returned
ModelReplyUpTo(maxCallId) ==
  /\ UNCHANGED <<raceVars, searchVars, trackerVars>>
  /\ pc = "awaiting_model"
  /\ \E nMsgs \in 0 .. MaxItems, shapes \in Batches :
       LET kept == IF lastCall.kind = "initial" /\ nMsgs > 1 THEN 1 ELSE nMsgs
           calls == WithIds(shapes, nextId)
       IN /\ nMsgs + Len(shapes) <= MaxItems
          /\ (round >= MaxRounds => shapes = <<>>)
          /\ nextId + Len(shapes) - 1 <= maxCallId
          /\ modelOutput' = [messages |-> nMsgs, calls |-> Len(shapes)]
          /\ messages' = messages \o Repeat(ModelMessage, kept)
          /\ functionCalls' = calls
          /\ batch' = calls
          /\ nextId' = nextId + Len(calls)
          /\ IF calls = <<>>
             THEN pc' = "done" /\ round' = round
             ELSE pc' = "executing" /\ round' = round + 1
  /\ lastToolName' = ""
  /\ lastScryfallResult' = -1
  /\ executed' = <<>>
  /\ UNCHANGED <<handler, executorsFile, clientHistory, turn, incomingMessages, intent,
                 systemContent, tools, lastCall, classifierReply, modelCalls,
                 tokenExchanges, failure, schemaLoad, userInput, response>>

\* the model API hands out at most MaxCallId call_ids
ModelReply == ModelReplyUpTo(MaxCallId)

\* client.responses.create / stream rejects
ModelFails ==
  /\ UNCHANGED <<raceVars, searchVars, trackerVars, modelOutput>>
  /\ pc = "awaiting_model"
  /\ Throw("model_call", messages)
  /\ UNCHANGED <<handler, executorsFile, clientHistory, turn, incomingMessages, functionCalls,
                 batch, lastToolName, lastScryfallResult, intent, systemContent, tools,
                 lastCall, classifierReply, nextId, round, modelCalls, executed,
                 tokenExchanges, schemaLoad, userInput, response>>


(* --------------------------- tool execution --------------------------- *)
\* End of one iteration of the for loop (gptAgent.js:226-292).  After the
\* last call of the batch, lines 294-308: either the early exit (the details
\* are appended, the while loop ends, the history is returned) or the
\* follow-up model call.
EndIteration(msgs, cards, catalog) ==
  LET fc == Head(functionCalls)
      rest == Tail(functionCalls)
  IN /\ functionCalls' = rest
     /\ lastToolName' = fc.name
     /\ lastScryfallResult' = cards
     /\ tools' = catalog
     /\ failure' = failure
     /\ IF rest # <<>>
        THEN /\ messages' = msgs
             /\ pc' = "executing"
             /\ UNCHANGED <<lastCall, modelCalls>>
        ELSE IF EarlyExit(fc.name, cards)
        THEN /\ messages' = Append(msgs, DetailsMsg)
             /\ pc' = "done"
             /\ UNCHANGED <<lastCall, modelCalls>>
        ELSE /\ messages' = msgs
             /\ pc' = "awaiting_model"
             /\ lastCall' = ModelCall("followup", msgs, catalog)
             /\ modelCalls' = modelCalls + 1

\* gptAgent.js:227-230: the call is pushed, then JSON.parse(fc.arguments) throws
ExecUnparsable ==
  /\ UNCHANGED <<raceVars, searchVars, trackerVars, modelOutput>>
  /\ pc = "executing"
  /\ Head(functionCalls).content = "malformed"
  /\ Throw("arguments", Append(messages, Head(functionCalls)))
  /\ lastToolName' = Head(functionCalls).name
  /\ UNCHANGED <<handler, executorsFile, clientHistory, turn, incomingMessages, functionCalls,
                 batch, lastScryfallResult, intent, systemContent, tools, lastCall,
                 classifierReply, nextId, round, modelCalls, executed, tokenExchanges,
                 schemaLoad, userInput, response>>

\* gptAgent.js:227-243: the call is pushed, no executor is found, continue
ExecSkipped ==
  /\ UNCHANGED <<raceVars, searchVars, trackerVars, modelOutput>>
  /\ pc = "executing"
  /\ Head(functionCalls).content # "malformed"
  /\ LookupExecutor(executorsFile, Head(functionCalls).name) = ""
  /\ LET r == SkipCall(Append(messages, Head(functionCalls)))
     IN IF r.aborted
        THEN /\ Throw("no_executor", r.messages)
             /\ lastToolName' = Head(functionCalls).name
             /\ UNCHANGED <<functionCalls, lastScryfallResult, tools, lastCall, modelCalls>>
        ELSE EndIteration(r.messages, lastScryfallResult, tools)
  /\ UNCHANGED <<handler, executorsFile, clientHistory, turn, incomingMessages, batch, intent,
                 systemContent, classifierReply, nextId, round, executed, tokenExchanges,
                 schemaLoad, userInput, response>>

\* gptAgent.js:247-267 and streamHandler.js:352-373, 393-396: scryfallSearch
\* has no try/catch, a failing fetch leaves the executor and sendMessage
ExecSearch ==
  /\ UNCHANGED <<raceVars, searchVars, trackerVars, modelOutput>>
  /\ pc = "executing"
  /\ Head(functionCalls).content # "malformed"
  /\ LookupExecutor(executorsFile, Head(functionCalls).name) = SCRYFALL
  /\ \E cards \in SearchOutcomes, schemaOk \in BOOLEAN :
       LET fc == Head(functionCalls)
           pushed == Append(messages, fc)
           msgs == Append(Prune(pushed, SCRYFALL, fc.call_id),
                          FunctionCallOutput(fc.call_id, SummaryOutput(cards)))
           refresh == handler = "streamHandler" /\ cards > 0
           catalog == IF refresh THEN getTools(schemaOk) ELSE tools
       IN IF cards < 0
          THEN /\ Throw("search", pushed)
               /\ lastToolName' = fc.name
               /\ UNCHANGED <<functionCalls, lastScryfallResult, tools, lastCall, modelCalls,
                              executed, schemaLoad>>
          ELSE /\ EndIteration(msgs, cards, catalog)
               /\ executed' = Append(executed, fc.call_id)
               /\ schemaLoad' = IF refresh THEN LoadResult(schemaOk) ELSE schemaLoad
  /\ UNCHANGED <<handler, executorsFile, clientHistory, turn, incomingMessages, batch, intent,
                 systemContent, classifierReply, nextId, round, tokenExchanges, userInput,
                 response>>

\* the entries pushed after a non-search tool has returned:
\* gptAgent.js:278-282, streamHandler.js:385-390
OtherToolEntries(call_id, output) ==
  IF handler = "streamHandler"
  THEN <<FunctionCallOutput(call_id, output), TrackerDeveloperMsg>>
  ELSE <<FunctionCallOutput(call_id, output)>>

\* gptAgent.js:247-249, 268-283, executors.js:27-114: every failure inside
\* tracker_dynamic is caught and returned as a value
ExecTracker ==
  /\ UNCHANGED <<raceVars, searchVars, trackerVars, modelOutput>>
  /\ pc = "executing"
  /\ Head(functionCalls).content # "malformed"
  /\ LookupExecutor(executorsFile, Head(functionCalls).name) = "tracker_dynamic"
  /\ \E outcome \in TrackerOutcomes :
       LET fc == Head(functionCalls)
           pushed == Append(messages, fc)
           msgs == Prune(pushed, fc.name, fc.call_id)
                     \o OtherToolEntries(fc.call_id, tracker_dynamic(executorsFile, outcome))
       IN /\ EndIteration(msgs, lastScryfallResult, tools)
          /\ executed' = Append(executed, fc.call_id)
  /\ tokenExchanges' = tokenExchanges + (IF ExchangesToken(PassedBearerToken) THEN 1 ELSE 0)
  /\ UNCHANGED <<handler, executorsFile, clientHistory, turn, incomingMessages, batch, intent,
                 systemContent, classifierReply, nextId, round, schemaLoad, userInput,
                 response>>

\* gptAgent.js:268-290: local_singlecard runs storeSingleCard; in gptAgent
\* the step switch reassigns intent, systemContent and tools
ExecSingleCard ==
  /\ UNCHANGED <<raceVars, searchVars, trackerVars, modelOutput>>
  /\ pc = "executing"
  /\ Head(functionCalls).content # "malformed"
  /\ LookupExecutor(executorsFile, Head(functionCalls).name) = SINGLECARD
  /\ \E schemaOk \in BOOLEAN :
       LET fc == Head(functionCalls)
           pushed == Append(messages, fc)
           msgs == Prune(pushed, fc.name, fc.call_id)
                     \o OtherToolEntries(fc.call_id, storeSingleCard)
           switch == handler = "gptAgent"
           catalog == IF switch THEN getToolsForStep(2, schemaOk).catalog ELSE tools
       IN /\ EndIteration(msgs, lastScryfallResult, catalog)
          /\ executed' = Append(executed, fc.call_id)
          /\ intent' = IF switch THEN 2 ELSE intent
          /\ systemContent' = IF switch THEN SystemContentFor(2) ELSE systemContent
          /\ schemaLoad' = IF switch THEN LoadResult(schemaOk) ELSE schemaLoad
  /\ UNCHANGED <<handler, executorsFile, clientHistory, turn, incomingMessages, batch,
                 classifierReply, nextId, round, tokenExchanges, userInput, response>>

(* ----------------------------- turn ends ------------------------------ *)
\* gptAgent.js:317 / streamHandler.js:452-454: the history is returned and
\* the client keeps it for its next request
Respond ==
  /\ UNCHANGED <<raceVars, searchVars, trackerVars>>
  /\ pc = "done"
  /\ clientHistory' = messages
  /\ response' = IF handler = "streamHandler"
                  THEN Response(200, TRUE, "history_frame")
                  ELSE Response(200, TRUE, "messages")
  /\ pc' = "idle"
  /\ TurnReset
  /\ UNCHANGED <<handler, executorsFile, turn, nextId, tokenExchanges, userInput>>

\* POST / (index.js:30-32, part_000:203-205): the catch block answers 500
\* with the exception's message
ErrorResponse == Response(500, TRUE, "error_message")

\* The promise of streamHandler.sendMessage rejects and nothing catches it
\* (no try/catch in 203-456, none around the route at part_000:193): the
\* headers with status 200 are out, and the connection is either left open
\* or torn down by the runtime, depending on how it treats the unhandled
\* rejection.
StreamAbandoned == {Response(200, closed, "frames") : closed \in BOOLEAN}

\* the exception left sendMessage: the client got no history and keeps its own
RespondError ==
  /\ UNCHANGED <<raceVars, searchVars, trackerVars>>
  /\ pc = "failed"
  /\ response' \in (IF handler = "streamHandler" THEN StreamAbandoned ELSE {ErrorResponse})
  /\ pc' = "idle"
  /\ TurnReset
  /\ UNCHANGED <<handler, executorsFile, clientHistory, turn, nextId, tokenExchanges,
                 userInput>>

\* index.js:23-26 and part_000:98-101, 197-200: POST / without a message
RequestMissing ==
  /\ UNCHANGED <<raceVars, searchVars, trackerVars, modelOutput>>
  /\ pc = "idle" /\ turn < MaxTurns /\ handler \in {"gptAgent", "postRoot"}
  /\ turn' = turn + 1
  /\ userInput' = "undefined"
  /\ response' = Response(400, TRUE, "error_message")
  /\ UNCHANGED <<handler, executorsFile, clientHistory, pc, incomingMessages, messages,
                 functionCalls, batch, lastToolName, lastScryfallResult, intent,
                 systemContent, tools, lastCall, classifierReply, nextId, round,
                 modelCalls, executed, tokenExchanges, failure, schemaLoad>>

\* index.js:27 gptAgent() and part_000:201 sendMessage(message, messages):
\* the call throws a TypeError before any await
RequestPostRoot ==
  /\ UNCHANGED <<raceVars, searchVars, trackerVars, modelOutput>>
  /\ pc = "idle" /\ turn < MaxTurns /\ handler = "postRoot"
  /\ turn' = turn + 1
  /\ userInput' = "user_input"
  /\ response' = NoResponse
  /\ Throw("type_error", <<>>)
  /\ UNCHANGED <<handler, executorsFile, clientHistory, incomingMessages, functionCalls,
                 batch, lastToolName, lastScryfallResult, intent, systemContent, tools,
                 lastCall, classifierReply, nextId, round, modelCalls, executed,
                 tokenExchanges, schemaLoad>>

Next ==
  \/ RequestGpt
  \/ ClassifyReply
  \/ RequestStream
  \/ ModelReply
  \/ ModelFails
  \/ ExecUnparsable
  \/ ExecSkipped
  \/ ExecSearch
  \/ ExecTracker
  \/ ExecSingleCard
  \/ Respond
  \/ RespondError
  \/ RequestMissing
  \/ RequestPostRoot

Spec == Init /\ [][Next]_vars


(* ------------------- client-crafted incoming histories ---------------- *)
\* A history as an earlier conversation could have left it: two searches,
\* a card selection, the candidate details of an early exit.  Its call_ids
\* come from that earlier conversation.
Template ==
  <<SystemMsg("gpt_identify"),
    FunctionCall(SCRYFALL, 101, "valid_json"), FunctionCallOutput(101, "summary_many"),
    FunctionCall(SCRYFALL, 102, "valid_json"), FunctionCallOutput(102, "summary_1"),
    FunctionCall(SINGLECARD, 103, "valid_json"), FunctionCallOutput(103, "status_success_card"),
    DetailsMsg>>

RECURSIVE Pick(_, _, _)
\* the entries of s at the positions in keep, from position k on, in order
Pick(s, keep, k) ==
  IF k > Len(s) THEN <<>>
  ELSE (IF k \in keep THEN <<s[k]>> ELSE <<>>) \o Pick(s, keep, k + 1)

\* what a client may post: any selection of the template's entries, which
\* includes histories with an orphaned call or an orphaned output
ClientHistories == {Pick(Template, keep, 1) : keep \in SUBSET (1 .. Len(Template))}

\* one turn on an arbitrary client-supplied history
InitCurator ==
  /\ handler \in Handlers
  /\ executorsFile \in ExecutorFiles
  /\ clientHistory \in ClientHistories
  /\ turn = MaxTurns - 1
  /\ pc = "idle"
  /\ incomingMessages = <<>>
  /\ messages = <<>>
  /\ functionCalls = <<>>
  /\ batch = <<>>
  /\ lastToolName = ""
  /\ lastScryfallResult = -1
  /\ intent = 0
  /\ systemContent = ""
  /\ tools = UndefinedCatalog
  /\ lastCall = NoCall
  /\ classifierReply = ""
  /\ nextId = MaxCallId
  /\ round = 0
  /\ modelCalls = 0
  /\ executed = <<>>
  /\ tokenExchanges = 0
  /\ failure = ""
  /\ schemaLoad = "none"
  /\ userInput = ""
  /\ response = NoResponse
  /\ InitRace
  /\ InitNoTracker
  /\ modelOutput = NoOutput
  /\ InitNoSearch

SpecCurator == InitCurator /\ [][Next]_vars


(* ------------------------- concurrent requests ------------------------ *)
\* Node runs the requests on one thread: a request runs until it awaits an
\* external call, and another request may run before that call resolves.
\* Each action below is the code between two awaits of one request.  The
\* requests go through gptAgent.sendMessage with the current executors.js,
\* the API key and the backend credentials come from Secrets Manager
\* (OPENAI_API_KEY_SECRET_ARN set, JWT_CREDENTIALS not set), and the model
\* asks for tracker operations.

\* req.body.message of request r
RequestInput(r) == IF r = 1 THEN "user_input" ELSE "other_input"

\* call_id of the k-th function_call item the API hands to request r
RequestCallId(r, k) == r * (MaxItems * MaxRounds + 1) + k

\* a module-level messages array, shared by all invocations
MessagesOwnerShared(r) == 1

\* gptAgent.js:203 "let messages = [...]" inside sendMessage: every
\* invocation has an array of its own
MessagesOwner(r) == r

\* a dispatcher that starts the executors of a batch without awaiting each
CanStartParallel(calls, running) == calls # <<>>

\* gptAgent.js:226-249 "for (const fc of functionCalls) { ... await
\* executor(...) ... }": the next iteration starts when the awaited
\* executor has returned
CanStart(calls, running) == calls # <<>> /\ running = {}

\* gptAgent.js:42-45 and 26-33: if (!openaiApiKey) await initOpenAIApiKey(),
\* which sends GetSecretValue and awaits the answer
CheckKey(r) ==
  /\ req[r].pos = "start"
  /\ IF openaiApiKey = ""
     THEN /\ secretFetches' = [secretFetches EXCEPT !.key = @ + 1]
          /\ req' = [req EXCEPT ![r].pos = "fetching_key"]
     ELSE /\ req' = [req EXCEPT ![r].pos = "check_client"]
          /\ UNCHANGED secretFetches
  /\ UNCHANGED <<mainVars, searchVars, trackerVars, modelOutput, openaiApiKey, client, cachedCredentials, reqMessages>>

\* gptAgent.js:32-33: the secret has arrived
KeyFetched(r) ==
  /\ req[r].pos = "fetching_key"
  /\ openaiApiKey' = "api_key"
  /\ req' = [req EXCEPT ![r].pos = "check_client"]
  /\ UNCHANGED <<mainVars, searchVars, trackerVars, modelOutput, client, cachedCredentials, secretFetches, reqMessages>>

\* gptAgent.js:46-50 and 203-215: create the client if there is none, build
\* the history, issue the initial model call
EnsureClient(r) ==
  /\ req[r].pos = "check_client"
  /\ client' = IF client = "" THEN "openai_client" ELSE client
  /\ reqMessages' = [reqMessages EXCEPT ![MessagesOwner(r)] =
                       <<SystemMsg(SystemContentFor(2)), UserMsgOf(RequestInput(r))>>]
  /\ req' = [req EXCEPT ![r].pos = "awaiting_model"]
  /\ UNCHANGED <<mainVars, searchVars, trackerVars, modelOutput, openaiApiKey, cachedCredentials, secretFetches>>

\* gptAgent.js:219-223 and 311-314: the model has answered, with a message
\* or with a batch of tracker calls
ModelAnswers(r) ==
  /\ req[r].pos = "awaiting_model"
  /\ \E n \in 0 .. MaxItems :
       LET calls == [k \in 1 .. n |->
                       FunctionCall(TRACKER, RequestCallId(r, Len(req[r].calls) + k),
                                    "valid_json")]
       IN /\ (req[r].round >= MaxRounds => n = 0)
          /\ IF n = 0
             THEN /\ reqMessages' = [reqMessages EXCEPT ![MessagesOwner(r)] =
                                       Append(@, ModelMessage)]
                  /\ req' = [req EXCEPT ![r].pos = "returned"]
             ELSE /\ req' = [req EXCEPT ![r].pos = "dispatching",
                                        ![r].functionCalls = calls,
                                        ![r].batch = calls,
                                        ![r].started = <<>>,
                                        ![r].returned = <<>>,
                                        ![r].calls = @ \o calls,
                                        ![r].round = @ + 1]
                  /\ UNCHANGED reqMessages
  /\ UNCHANGED <<mainVars, searchVars, trackerVars, modelOutput, openaiApiKey, client, cachedCredentials, secretFetches>>

\* gptAgent.js:226-249: the next call of the batch is pushed and its
\* executor is called
StartExecutor(r) ==
  /\ req[r].pos = "dispatching"
  /\ CanStart(req[r].functionCalls, req[r].running)
  /\ LET fc == Head(req[r].functionCalls)
     IN /\ reqMessages' = [reqMessages EXCEPT ![MessagesOwner(r)] = Append(@, fc)]
        /\ req' = [req EXCEPT ![r].functionCalls = Tail(@),
                              ![r].running = @ \cup {[call |-> fc, stage |-> "credentials"]},
                              ![r].started = Append(@, fc.call_id)]
  /\ UNCHANGED <<mainVars, searchVars, trackerVars, modelOutput, openaiApiKey, client, cachedCredentials, secretFetches>>

\* executors.js:34-36, 157-165 and 7-11: tracker_dynamic asks for a bearer
\* token, getBearerToken for the credentials, getCredentials sends
\* GetSecretValue when nothing is cached
CheckCredentials(r) ==
  /\ \E e \in req[r].running :
       /\ e.stage = "credentials"
       /\ IF cachedCredentials = ""
          THEN /\ secretFetches' = [secretFetches EXCEPT !.credentials = @ + 1]
               /\ req' = [req EXCEPT ![r].running =
                            (@ \ {e}) \cup {[e EXCEPT !.stage = "fetching_credentials"]}]
          ELSE /\ req' = [req EXCEPT ![r].running =
                            (@ \ {e}) \cup {[e EXCEPT !.stage = "calling_backend"]}]
               /\ UNCHANGED secretFetches
  /\ UNCHANGED <<mainVars, searchVars, trackerVars, modelOutput, openaiApiKey, client, cachedCredentials, reqMessages>>

\* executors.js:11-13: the credentials have arrived and are cached
CredentialsFetched(r) ==
  /\ \E e \in req[r].running :
       /\ e.stage = "fetching_credentials"
       /\ req' = [req EXCEPT ![r].running =
                    (@ \ {e}) \cup {[e EXCEPT !.stage = "calling_backend"]}]
  /\ cachedCredentials' = "credentials"
  /\ UNCHANGED <<mainVars, searchVars, trackerVars, modelOutput, openaiApiKey, client, secretFetches, reqMessages>>

\* executors.js:37-113, 166-174 and gptAgent.js:268-308: the token exchange and the
\* backend operation are over, the executor returns, the result is appended;
\* after the last call of the batch the follow-up model call is issued
ExecutorReturns(r) ==
  /\ \E e \in req[r].running, outcome \in {"success", "operation_fail"} :
       LET output == tracker_dynamic("executors.js", outcome)
           left == req[r].running \ {e}
       IN /\ e.stage = "calling_backend"
          /\ reqMessages' = [reqMessages EXCEPT ![MessagesOwner(r)] =
                               Append(Prune(@, e.call.name, e.call.call_id),
                                      FunctionCallOutput(e.call.call_id, output))]
          /\ req' = [req EXCEPT ![r].running = left,
                                ![r].returned = Append(@, e.call.call_id),
                                ![r].outputs = Append(@, output),
                                ![r].pos = IF req[r].functionCalls = <<>> /\ left = {}
                                           THEN "awaiting_model" ELSE "dispatching"]
  /\ UNCHANGED <<mainVars, searchVars, trackerVars, modelOutput, openaiApiKey, client, cachedCredentials, secretFetches>>

NextConcurrent ==
  \E r \in Requests :
     \/ CheckKey(r)
     \/ KeyFetched(r)
     \/ EnsureClient(r)
     \/ ModelAnswers(r)
     \/ StartExecutor(r)
     \/ CheckCredentials(r)
     \/ CredentialsFetched(r)
     \/ ExecutorReturns(r)

InitConcurrent ==
  /\ handler = "gptAgent"
  /\ executorsFile = "executors.js"
  /\ clientHistory = <<>>
  /\ turn = 0
  /\ pc = "idle"
  /\ incomingMessages = <<>>
  /\ messages = <<>>
  /\ functionCalls = <<>>
  /\ batch = <<>>
  /\ lastToolName = ""
  /\ lastScryfallResult = -1
  /\ intent = 0
  /\ systemContent = ""
  /\ tools = UndefinedCatalog
  /\ lastCall = NoCall
  /\ classifierReply = ""
  /\ nextId = 1
  /\ round = 0
  /\ modelCalls = 0
  /\ executed = <<>>
  /\ tokenExchanges = 0
  /\ failure = ""
  /\ schemaLoad = "none"
  /\ userInput = ""
  /\ response = NoResponse
  /\ InitRace
  /\ InitNoTracker
  /\ modelOutput = NoOutput
  /\ InitNoSearch

SpecConcurrent == InitConcurrent /\ [][NextConcurrent]_vars


(* ====================== properties of the model ======================= *)
Range(s) == {s[k] : k \in 1 .. Len(s)}

IsCall(m) == m.type = "function_call"

IsOutput(m) == m.type = "function_call_output"

\* every function_call of h is followed at once by the one and only
\* function_call_output with its call_id, and no output lacks an earlier call
Paired(h) ==
  /\ \A i \in 1 .. Len(h) :
       IsCall(h[i]) =>
         /\ i < Len(h)
         /\ IsOutput(h[i + 1])
         /\ h[i + 1].call_id = h[i].call_id
         /\ Cardinality({j \in 1 .. Len(h) : IsOutput(h[j]) /\ h[j].call_id = h[i].call_id}) = 1
  /\ \A j \in 1 .. Len(h) :
       IsOutput(h[j]) => \E i \in 1 .. j - 1 : IsCall(h[i]) /\ h[i].call_id = h[j].call_id

\* the request sent most recently to the model is a tool-enabled model turn
ToolEnabledCall == lastCall.kind \in {"initial", "followup"}

\* C1: in a conversation that starts from an empty history and resends the
\* returned array verbatim, every history passed to the model (initial and
\* follow-up calls) and every returned history pairs each function_call with
\* exactly one adjacent function_call_output of the same call_id, and holds no
\* output without a preceding call.
C1_PairingInvariant ==
  /\ ToolEnabledCall => Paired(lastCall.input)
  /\ pc = "done" => Paired(messages)

\* no function_call of h lacks its output and no output lacks its call
NoOrphan(h) ==
  /\ \A i \in 1 .. Len(h) :
       IsCall(h[i]) => \E j \in 1 .. Len(h) : IsOutput(h[j]) /\ h[j].call_id = h[i].call_id
  /\ \A j \in 1 .. Len(h) :
       IsOutput(h[j]) => \E i \in 1 .. Len(h) : IsCall(h[i]) /\ h[i].call_id = h[j].call_id

\* C2: for every client-supplied incoming history, malformed ones included,
\* the cleaned history placed between the fresh system prefix and the new
\* user message holds no orphaned function_call and no orphaned output.
C2_CuratedHasNoOrphan == NoOrphan(incomingMessages)

\* positions of the scryfall_search calls of h that have an output after them
SearchPairs(h) ==
  {i \in 1 .. Len(h) :
     /\ IsCall(h[i]) /\ h[i].name = SCRYFALL
     /\ \E j \in i + 1 .. Len(h) : IsOutput(h[j]) /\ h[j].call_id = h[i].call_id}

HasId(h, id) == \E k \in 1 .. Len(h) : h[k].call_id = id

\* C3: when the incoming history holds two scryfall_search call/result pairs,
\* the curated history handed to the first model call of the turn holds the
\* later pair and neither entry of the earlier pair.
C3_CuratorSupersedes ==
  (lastCall.kind = "initial" /\ Cardinality(SearchPairs(clientHistory)) = 2) =>
     \A i, j \in SearchPairs(clientHistory) :
        i < j => /\ ~HasId(incomingMessages, clientHistory[i].call_id)
                 /\ \E k \in 1 .. Len(incomingMessages) :
                      /\ incomingMessages[k] = clientHistory[j]
                      /\ k < Len(incomingMessages)
                      /\ IsOutput(incomingMessages[k + 1])
                      /\ incomingMessages[k + 1].call_id = clientHistory[j].call_id

\* h holds a local_singlecard call or the output of one
MentionsSingleCard(h) ==
  \E i \in 1 .. Len(h) :
     \/ IsCall(h[i]) /\ h[i].name = SINGLECARD
     \/ IsOutput(h[i]) /\ \E k \in 1 .. Len(h) : IsCall(h[k]) /\ h[k].name = SINGLECARD
                                                  /\ h[k].call_id = h[i].call_id

\* h holds a local_singlecard call with its output and no search after it
HasSelectedCard(h) ==
  \E i \in 1 .. Len(h) :
     /\ IsCall(h[i]) /\ h[i].name = SINGLECARD
     /\ \E j \in i + 1 .. Len(h) : IsOutput(h[j]) /\ h[j].call_id = h[i].call_id
     /\ \A k \in i + 1 .. Len(h) : ~(IsCall(h[k]) /\ h[k].name = SCRYFALL)

\* the identification-phase catalog: search tool, card-selected tool, file search
IsIdentifyCatalog(c) == c.defined /\ {SCRYFALL, SINGLECARD} \subseteq c.names

\* the operate-phase catalog: the tracker tools the schema yields
IsTrackerCatalog(c) == c.defined /\ c.names \subseteq {TRACKER}

\* C4: in gptAgent.sendMessage, for an incoming history with no
\* local_singlecard call/result the first model call of the turn uses the
\* identification-phase prompt and catalog, whatever the classifier returns;
\* for a history with a valid, non-superseded local_singlecard result it
\* uses the operate-phase prompt and the tracker catalog.
C4_PhaseGating ==
  (handler = "gptAgent" /\ lastCall.kind = "initial") =>
     /\ ~MentionsSingleCard(incomingMessages) =>
          /\ lastCall.input[1] = SystemMsg("gpt_identify")
          /\ IsIdentifyCatalog(lastCall.tools)
     /\ HasSelectedCard(incomingMessages) =>
          /\ lastCall.input[1] = SystemMsg("gpt_operate")
          /\ IsTrackerCatalog(lastCall.tools)

\* a local_singlecard call of the current batch has been executed
SingleCardExecuted ==
  \E k \in 1 .. Len(batch) : batch[k].name = SINGLECARD /\ batch[k].call_id \in Range(executed)

\* C5: after a local_singlecard call has been executed in
\* gptAgent.sendMessage, every later model call of the turn carries the
\* operate-phase system instructions and the tracker catalog.
C5_PhaseTransition ==
  (handler = "gptAgent" /\ lastCall.kind = "followup" /\ SingleCardExecuted) =>
     /\ lastCall.input[1] = SystemMsg("gpt_operate")
     /\ IsTrackerCatalog(lastCall.tools)


\* the step that ends a batch without throwing
BatchEnds == pc = "executing" /\ Len(functionCalls) = 1 /\ pc' # "failed"

\* the last call of the batch was a search and its summary, as appended to
\* the history, lists more than one candidate
LastIsAmbiguousSearch ==
  /\ Last(batch).name = SCRYFALL
  /\ \E i \in 1 .. Len(messages') :
       messages'[i] = FunctionCallOutput(Last(batch).call_id, "summary_many")

C6_Step ==
  /\ BatchEnds =>
       IF LastIsAmbiguousSearch
       THEN /\ pc' = "done"
            /\ modelCalls' = modelCalls
            /\ lastCall' = lastCall
            /\ Last(messages') = DetailsMsg
            /\ Front(messages')[Len(messages') - 1].role # "assistant"
       ELSE /\ pc' = "awaiting_model"
            /\ modelCalls' = modelCalls + 1
            /\ lastCall'.kind = "followup"
            /\ lastCall'.input = messages'
  /\ pc = "done" => pc' = "idle" /\ modelCalls' = 0

HasExecutor(fc) == LookupExecutor(executorsFile, fc.name) # ""

\* the calls of the batch the loop has gone through so far
Processed == SubSeq(batch, 1, Len(batch) - Len(functionCalls))

CallIds(calls) == [k \in 1 .. Len(calls) |-> calls[k].call_id]

C7_Step ==
  pc = "executing" =>
     LET fc == Head(functionCalls)
     IN /\ (~HasExecutor(fc) /\ fc.content = "valid_json") =>
             /\ pc' # "failed"
             /\ functionCalls' = Tail(functionCalls)
             /\ executed' = executed
             /\ \E i \in 1 .. Len(messages') : messages'[i] = fc
        /\ (HasExecutor(fc) /\ pc' # "failed") =>
             /\ executed' = Append(executed, fc.call_id)
             /\ \E i \in 1 .. Len(messages') - 1 :
                  /\ messages'[i] = fc
                  /\ IsOutput(messages'[i + 1])
                  /\ messages'[i + 1].call_id = fc.call_id

\* the executors that have run are those of the processed calls that have
\* one, in the order the model emitted them
C7_InOrder ==
  pc \in {"executing", "awaiting_model", "done"} =>
     executed = CallIds(SelectSeq(Processed, HasExecutor))

C8_FailuresStayInDispatcher ==
  /\ failure # "search"
  /\ \A i \in 1 .. Len(messages) :
       IsOutput(messages[i]) => messages[i].content # "error_without_status"

\* C9: over any sequence of tracker_* invocations in one process the
\* request to /gettoken is made at most once.
C9_TokenExchangedOnce == tokenExchanges <= 1

MalformedReplies == {"not_json", "no_step_field", "step_3"}

\* C10: whatever the classifier replies (not JSON, no step field, a step
\* other than 1 or 2), gptAgent.sendMessage proceeds with phase 1, the
\* identification prompt and a defined identification catalog; the phase of
\* the first model call is always 1 or 2.
C10_ClassifierDefault ==
  /\ classifierReply \in MalformedReplies =>
       /\ failure # "catalog"
       /\ lastCall.kind = "initial" =>
            /\ intent = 1
            /\ lastCall.input[1] = SystemMsg("gpt_identify")
            /\ lastCall.tools.defined
  /\ (handler = "gptAgent" /\ lastCall.kind = "initial") => intent \in {1, 2}

\* C11: whenever gptAgent.sendMessage is in phase 1, getToolsForStep(1)
\* returns a catalog holding the scryfall_search and the local_singlecard
\* descriptor, and a local_singlecard call requested by the model has a
\* registered executor.
C11_IdentifyCatalog ==
  handler = "gptAgent" =>
     /\ intent = 1 =>
          /\ failure # "catalog"
          /\ pc \in {"awaiting_model", "executing", "done"} => IsIdentifyCatalog(tools)
     /\ \A k \in 1 .. Len(batch) : batch[k].name = SINGLECARD => HasExecutor(batch[k])

\* the entry at position i of h comes after the non-empty result of a
\* scryfall_search call
TracesToSearch(h, i) ==
  \E j \in 1 .. i - 1 :
     /\ IsOutput(h[j])
     /\ h[j].content \in {"summary_1", "summary_many"}
     /\ \E k \in 1 .. j - 1 : IsCall(h[k]) /\ h[k].name = SCRYFALL /\ h[k].call_id = h[j].call_id

\* C12: the phase flips to operate on a local_singlecard call only when the
\* card it names traces back to a scryfall_search result that is in the
\* history before the call.
C12_SelectedCardTraced ==
  (handler = "gptAgent" /\ classifyStep(classifierReply) # 2 /\ intent = 2) =>
     \A i \in 1 .. Len(messages) :
        (IsCall(messages[i]) /\ messages[i].name = SINGLECARD
           /\ messages[i].call_id \in Range(executed)) => TracesToSearch(messages, i)

\* C13: when the swagger load fails the turn goes on, and the catalog the
\* request holds and passes to the model is a defined list without any
\* tracker_* descriptor.
C13_SchemaFailureDegrades ==
  schemaLoad = "failed" =>
     /\ failure # "catalog"
     /\ tools.defined
     /\ \A n \in tools.names : ~StartsWithTracker(n)
     /\ pc = "awaiting_model" => lastCall.tools = tools

\* the swagger load failed and the turn has run to its end through a batch
\* of tool calls and the follow-up model call
C13_Witness ==
  /\ schemaLoad = "failed"
  /\ pc = "done"
  /\ lastCall.kind = "followup"
  /\ lastCall.tools.defined
  /\ TRACKER \notin lastCall.tools.names

\* C14: a POST whose body has no message is answered with a 4xx status and
\* causes no model call and no tool call, on POST / and on POST /api/stream.
C14_MissingMessageRejected ==
  userInput = "undefined" =>
     /\ modelCalls = 0
     /\ executed = <<>>
     /\ pc = "idle"
     /\ response.status \in 400 .. 499

\* the exceptions that come from an external call failing
ExternalFailures == {"model_call", "search"}

Count(h, m) == Cardinality({i \in 1 .. Len(h) : h[i] = m})

\* C15: POST / with a non-empty message: unless an external call fails the
\* answer is 200 with {messages}, the full updated history: the fresh
\* system message first, the new user message exactly once.
C15_PostRootContract ==
  (handler # "streamHandler" /\ userInput = "user_input") =>
     /\ pc = "failed" => failure \in ExternalFailures
     /\ pc = "done" =>
          /\ messages[1].role = "system"
          /\ Count(messages, UserMsg) = Count(incomingMessages, UserMsg) + 1
     /\ (pc = "idle" /\ response.status # 500) => response = Response(200, TRUE, "messages")

C16_Step ==
  pc = "failed" =>
     /\ response'.status \in 500 .. 599
     /\ response'.body = "error_message"
     /\ response'.ended

\* C16: on every route, when an exception leaves the orchestration loop the
\* client receives a 5xx response carrying the exception's message and the
\* response is ended.
C16_TerminalErrorResponse == [][C16_Step]_vars

\* outputs of shape {status: "error", message}
ErrorOutputs == {"status_error_message"}

\* C17: when a tool call's result is error-shaped, no entry the orchestration
\* layer appends after it states that the operation was completed.
C17_NoFabricatedSuccess ==
  \A i \in 1 .. Len(messages) - 1 :
     (IsOutput(messages[i]) /\ messages[i].content \in ErrorOutputs) =>
        messages[i + 1] # TrackerDeveloperMsg

\* C18: when two or more requests run ensureOpenAIClient or getCredentials
\* before the first initialization has completed, at most one fetch of the
\* secret proceeds.
C18_GuardedLazyInit ==
  /\ secretFetches.key <= 1
  /\ secretFetches.credentials <= 1

RECURSIVE RunBatch(_, _, _)
\* the history after the calls have been executed one after the other with
\* the given outputs, starting from msgs
RunBatch(msgs, calls, outputs) ==
  IF calls = <<>> \/ outputs = <<>> THEN msgs
  ELSE LET fc == Head(calls)
       IN RunBatch(Append(Prune(Append(msgs, fc), fc.name, fc.call_id),
                          FunctionCallOutput(fc.call_id, Head(outputs))),
                   Tail(calls), Tail(outputs))

\* the history request r returns when it is the only request, for the
\* answers the model and the backend gave it
RunAlone(r) ==
  RunBatch(<<SystemMsg(SystemContentFor(2)), UserMsgOf(RequestInput(r))>>,
           req[r].calls, req[r].outputs) \o <<ModelMessage>>

\* the requests whose position, locals or history a step has changed
Touched == {r \in Requests : req'[r] # req[r] \/ reqMessages'[r] # reqMessages[r]}

C19_Step == Cardinality(Touched) <= 1

C19_ReturnsAsAlone ==
  \A r \in Requests : req[r].pos = "returned" => reqMessages[r] = RunAlone(r)

\* C19: for any interleaving of two concurrent requests at their await
\* points, the history returned to each request is the one it returns when
\* it runs alone; a step of one request writes no variable of another
\* request, only the memoized API key, the client handle and the cached
\* credentials are shared.
C19_RequestIndependence == [][C19_Step]_vars /\ []C19_ReturnsAsAlone

\* both requests ran through a batch of tool calls while racing for the
\* API key, and both have returned
C19_Witness ==
  /\ \A r \in Requests : req[r].pos = "returned" /\ req[r].batch # <<>>
  /\ secretFetches.key > 1

IsPrefix(s, t) == Len(s) <= Len(t) /\ s = SubSeq(t, 1, Len(s))

\* C20: within one request the tool calls of a model response are
\* dispatched one at a time in the order the model emitted them: an executor
\* starts only after the one before it has returned and its result has been
\* appended, and no model call is in flight while a tool executes.
C20_SequentialExecution ==
  \A r \in Requests :
     /\ Cardinality(req[r].running) <= 1
     /\ req[r].running # {} => req[r].pos = "dispatching"
     /\ IsPrefix(req[r].started, CallIds(req[r].batch))
     /\ req[r].returned = SubSeq(req[r].started, 1,
                                 Len(req[r].started) - Cardinality(req[r].running))
     /\ (req[r].running # {} /\ req[r].returned # <<>>) =>
          \E i \in 1 .. Len(reqMessages[r]) :
             /\ IsOutput(reqMessages[r][i])
             /\ reqMessages[r][i].call_id = Last(req[r].returned)

\* a request has executed a batch of two calls, one after the other, and
\* has returned
C20_Witness ==
  \E r \in Requests :
     /\ req[r].pos = "returned"
     /\ Len(req[r].batch) > 1
     /\ req[r].returned = CallIds(req[r].batch)



(* --------------------------- one turn, fair --------------------------- *)
\* gptAgent.js:247-267 with a search that answers: the fetch resolves
SearchReturns == ExecSearch /\ pc' # "failed"

\* one turn from an empty history
InitLive ==
  /\ handler \in Handlers
  /\ executorsFile \in ExecutorFiles
  /\ clientHistory = <<>>
  /\ turn = MaxTurns - 1
  /\ pc = "idle"
  /\ incomingMessages = <<>>
  /\ messages = <<>>
  /\ functionCalls = <<>>
  /\ batch = <<>>
  /\ lastToolName = ""
  /\ lastScryfallResult = -1
  /\ intent = 0
  /\ systemContent = ""
  /\ tools = UndefinedCatalog
  /\ lastCall = NoCall
  /\ classifierReply = ""
  /\ nextId = 1
  /\ round = 0
  /\ modelCalls = 0
  /\ executed = <<>>
  /\ tokenExchanges = 0
  /\ failure = ""
  /\ schemaLoad = "none"
  /\ userInput = ""
  /\ response = NoResponse
  /\ InitRace
  /\ InitNoTracker
  /\ modelOutput = NoOutput
  /\ InitNoSearch

\* a turn in which the model API answers every request and every external
\* call returns: client.responses.create resolves (no ModelFails) and the
\* Scryfall fetch resolves (SearchReturns)
NextLive ==
  \/ RequestGpt
  \/ ClassifyReply
  \/ RequestStream
  \/ ModelReply
  \/ ExecUnparsable
  \/ ExecSkipped
  \/ SearchReturns
  \/ ExecTracker
  \/ ExecSingleCard
  \/ Respond
  \/ RespondError
  \/ RequestMissing
  \/ RequestPostRoot

\* Node's event loop runs the continuation of every await whose call has
\* settled, so a step that is possible is eventually taken; the model
\* stops emitting calls after MaxRounds batches (ModelReply)
SpecLive == InitLive /\ [][NextLive]_vars /\ WF_vars(NextLive)


(* ------------------------------ C21 ----------------------------------- *)
\* the while loop of gptAgent.js:223-315: a reply without function_call
\* ends the turn, a reply with calls starts the batch; after the last call
\* of a batch either the early exit ends the turn or the model is called
\* again; the turn ends in no other way
C21_Step ==
  /\ (pc = "awaiting_model" /\ pc' # "failed") =>
        /\ (pc' = "done") <=> (functionCalls' = <<>>)
        /\ (pc' = "executing") <=> (functionCalls' # <<>>)
  /\ (pc = "executing" /\ pc' # "failed") =>
        IF Len(functionCalls) > 1
        THEN pc' = "executing"
        ELSE /\ (pc' = "done") <=> EarlyExit(lastToolName', lastScryfallResult')
             /\ (pc' # "done") => (pc' = "awaiting_model" /\ modelCalls' = modelCalls + 1)
  /\ (pc' = "done" /\ pc # "done") => pc \in {"awaiting_model", "executing"}

\* C21: the turn is DONE exactly when a model response has no function_call
\* or the early exit fired, otherwise the batch is executed and the model
\* is called again; and when the model eventually answers without calls and
\* every external call returns, every turn that started returns its history
C21_LoopTermination ==
  /\ [][C21_Step]_vars
  /\ \A t \in 1 .. MaxTurns :
        (turn = t /\ pc \in {"classifying", "awaiting_model", "executing"})
           ~> (turn = t /\ pc = "done")


(* ------------------------ one card search ----------------------------- *)
\* executors.js:117-142: the query is built and the request is sent
scryfallSearch ==
  /\ q = <<>>
  /\ q' = scryfallSearchQuery(searchArgs)
  /\ UNCHANGED <<mainVars, raceVars, searchArgs, trackerVars, modelOutput>>

\* scryfallSearch called with any combination of filter arguments, while no
\* conversation is served
InitSearch ==
  /\ searchArgs \in SearchArgs
  /\ q = <<>>
  /\ handler = "gptAgent"
  /\ executorsFile = "executors.js"
  /\ clientHistory = <<>>
  /\ turn = MaxTurns
  /\ pc = "idle"
  /\ incomingMessages = <<>>
  /\ messages = <<>>
  /\ functionCalls = <<>>
  /\ batch = <<>>
  /\ lastToolName = ""
  /\ lastScryfallResult = -1
  /\ intent = 0
  /\ systemContent = ""
  /\ tools = UndefinedCatalog
  /\ lastCall = NoCall
  /\ classifierReply = ""
  /\ nextId = 1
  /\ round = 0
  /\ modelCalls = 0
  /\ executed = <<>>
  /\ tokenExchanges = 0
  /\ failure = ""
  /\ schemaLoad = "none"
  /\ userInput = ""
  /\ response = NoResponse
  /\ InitRace
  /\ InitNoTracker
  /\ modelOutput = NoOutput

NextSearch == scryfallSearch

SpecSearch == InitSearch /\ [][NextSearch]_vars


(* ------------------------------ C22 ----------------------------------- *)
RECURSIVE ApiTermsAt(_, _, _)
\* the terms of a query string as the search API reads it: terms are
\* separated by whitespace, double quotes keep a phrase together
ApiTermsAt(s, cur, quoted) ==
  IF s = <<>> THEN (IF cur = <<>> THEN <<>> ELSE <<cur>>)
  ELSE IF Head(s) = "\"" THEN ApiTermsAt(Tail(s), Append(cur, Head(s)), ~quoted)
  ELSE IF Head(s) = " " /\ ~quoted
       THEN (IF cur = <<>> THEN <<>> ELSE <<cur>>) \o ApiTermsAt(Tail(s), <<>>, FALSE)
       ELSE ApiTermsAt(Tail(s), Append(cur, Head(s)), quoted)

ApiTerms(s) == Range(ApiTermsAt(s, <<>>, FALSE))

\* the non-empty words of a text
Words(text) == {w \in Range(Split(text)) : w # <<>>}

\* the terms the supplied filters stand for
SuppliedTerms(args) ==
  (IF Truthy(args.name) THEN {Quoted("name:", args.name)} ELSE {})
  \cup (IF Truthy(args.oracle_text) THEN {Quoted("o:", w) : w \in Words(args.oracle_text)} ELSE {})
  \cup (IF Truthy(args.type) THEN {Quoted("t:", w) : w \in Words(args.type)} ELSE {})
  \cup (IF args.reserved = "true" THEN {<<"is:reserved">>} ELSE {})
  \cup (IF Truthy(args.colors) THEN {Quoted("c:", args.colors)} ELSE {})
  \cup (IF Truthy(args.set) THEN {<<"set:">> \o args.set} ELSE {})

\* C22: whatever filter arguments scryfallSearch is given, the query it
\* sends holds the terms game:paper and unique:prints, and every supplied
\* filter is one more term of the query
C22_SearchConstraint ==
  q # <<>> =>
     /\ <<"game:paper">> \in ApiTerms(q)
     /\ <<"unique:prints">> \in ApiTerms(q)
     /\ SuppliedTerms(searchArgs) \subseteq ApiTerms(q)

\* the two fixed constraints alone
C22_FixedConstraints ==
  q # <<>> => {<<"game:paper">>, <<"unique:prints">>} \subseteq ApiTerms(q)


(* ------------------------------ C23 ----------------------------------- *)
\* where in h the call fc is directly followed by its function_call_output
PairIndex(h, fc) ==
  {i \in 1 .. Len(h) - 1 : h[i] = fc /\ IsOutput(h[i + 1]) /\ h[i + 1].call_id = fc.call_id}

\* C23: the history given to the follow-up model call holds, for every call
\* of the batch that had an executor, the function_call followed by its
\* function_call_output, in the order the model emitted the calls, also
\* when two calls of the batch have the same tool name
C23_BatchVisible ==
  (pc = "awaiting_model" /\ lastCall.kind = "followup") =>
     LET ran == SelectSeq(batch, HasExecutor)
     IN \A k \in 1 .. Len(ran) :
          /\ PairIndex(lastCall.input, ran[k]) # {}
          /\ \A j \in 1 .. k - 1 :
               \A a \in PairIndex(lastCall.input, ran[j]),
                  b \in PairIndex(lastCall.input, ran[k]) : a < b


(* ------------------------------ C24 ----------------------------------- *)
\* C24: while the loop executes tool calls the working history only grows:
\* no step removes an entry that was in it, the loop prunes nothing
C24_LoopOnlyAppends ==
  [][pc = "executing" => IsPrefix(messages, messages')]_vars


(* ------------------------------ C25 ----------------------------------- *)
\* a turn whose incoming history has been curated
Curated == pc \in {"classifying", "awaiting_model", "executing", "done"}

\* C25: the last message of the incoming history is discarded exactly when
\* it is the candidate-details message of the early exit; a trailing reply
\* of the model, whose content is the list of content parts, is retained
C25_TrailingMessage ==
  (Curated /\ clientHistory # <<>>) =>
     /\ Last(clientHistory) = DetailsMsg =>
          Count(incomingMessages, DetailsMsg) = Count(clientHistory, DetailsMsg) - 1
     /\ Last(clientHistory) = ModelMessage =>
          /\ incomingMessages # <<>>
          /\ Last(incomingMessages) = ModelMessage
          /\ Count(incomingMessages, ModelMessage) = Count(clientHistory, ModelMessage)


(* ------------------------------ C26 ----------------------------------- *)
\* the entries of h that carry full card records
HoldsDetails(h) == {i \in 1 .. Len(h) : h[i].content = "card_details"}

\* C26: played from an empty history with the returned array resent as it
\* is, no input of a model call (classifier, initial, follow-up) holds the
\* details of a search result; a search's function_call_output holds the
\* summary only, and the details message of the early exit is removed by
\* the curation of the next turn
C26_DetailsNeverSent ==
  /\ HoldsDetails(lastCall.input) = {}
  /\ \A i \in 1 .. Len(messages) : IsOutput(messages[i]) => messages[i].content # "card_details"
  /\ (Curated /\ clientHistory # <<>> /\ Last(clientHistory) = DetailsMsg) =>
        HoldsDetails(incomingMessages) = {}

\* a model call of the turn after an early exit: the resent history ends
\* with the details message
C26_Witness ==
  /\ clientHistory # <<>>
  /\ Last(clientHistory) = DetailsMsg
  /\ lastCall.kind \in {"classify", "initial"}
  /\ Len(lastCall.input) > 2


(* ------------------------------ C27 ----------------------------------- *)
\* where h holds a system-role message
SystemAt(h) == {i \in 1 .. Len(h) : h[i].role = "system"}

\* where h holds the standing developer instruction
StandingAt(h) == {i \in 1 .. Len(h) : h[i] = StandingDeveloperMsg}

\* C27: played from an empty history with the returned array resent as it
\* is, every model input holds exactly one system message, as its first
\* entry, and in streamHandler exactly one copy of the standing developer
\* instruction, as its second entry; those of the previous turn are
\* stripped from the incoming history before the fresh ones are prepended
C27_SingleSystemPrefix ==
  /\ lastCall.kind # "none" =>
        /\ SystemAt(lastCall.input) = {1}
        /\ handler = "streamHandler" => StandingAt(lastCall.input) = {2}
  /\ Curated => (SystemAt(incomingMessages) = {} /\ StandingAt(incomingMessages) = {})

\* the initial model call of a turn whose incoming history is the array the
\* previous turn returned, fresh system message and standing instruction
\* included
C27_Witness ==
  /\ handler = "streamHandler"
  /\ lastCall.kind = "initial"
  /\ Len(clientHistory) > 2
  /\ clientHistory[1].role = "system"
  /\ clientHistory[2] = StandingDeveloperMsg
  /\ Len(incomingMessages) > 0


(* ----------------------- long posted histories ------------------------ *)
\* what the body of a posted history is made of: user and assistant text,
\* a tool call and its result
EntryKinds ==
  {UserMsg, TextAssistantMsg, FunctionCall(TRACKER, 101, "valid_json"),
   FunctionCallOutput(101, "status_success")}

\* a posted history: maybe the system message and the standing instruction
\* of an earlier turn in front, up to MaxHistory entries, maybe the details
\* message of an early exit at the end
LongHistories ==
  {lead \o body \o trail :
     lead \in {<<>>, <<SystemMsg("stream_prompt")>>,
               <<SystemMsg("stream_prompt"), StandingDeveloperMsg>>},
     body \in UNION {[1 .. n -> EntryKinds] : n \in 0 .. MaxHistory},
     trail \in {<<>>, <<DetailsMsg>>}}

\* streamHandler.sendMessage is called with a long history
InitRetention ==
  /\ handler = "streamHandler"
  /\ executorsFile = "executors.js"
  /\ clientHistory \in LongHistories
  /\ turn = MaxTurns - 1
  /\ pc = "idle"
  /\ incomingMessages = <<>>
  /\ messages = <<>>
  /\ functionCalls = <<>>
  /\ batch = <<>>
  /\ lastToolName = ""
  /\ lastScryfallResult = -1
  /\ intent = 0
  /\ systemContent = ""
  /\ tools = UndefinedCatalog
  /\ lastCall = NoCall
  /\ classifierReply = ""
  /\ nextId = MaxCallId
  /\ round = 0
  /\ modelCalls = 0
  /\ executed = <<>>
  /\ tokenExchanges = 0
  /\ failure = ""
  /\ schemaLoad = "none"
  /\ userInput = ""
  /\ response = NoResponse
  /\ InitRace
  /\ InitNoTracker
  /\ modelOutput = NoOutput
  /\ InitNoSearch

\* streamHandler.js:203-294: the history is curated and sent to the model
NextRetention == RequestStream

SpecRetention == InitRetention /\ [][NextRetention]_vars


(* ------------------------------ C28 ----------------------------------- *)
\* the incoming history after the strips of streamHandler.js:218-233
Stripped(h) == ShiftRole(ShiftRole(PopDetails(h), "system"), "developer")

Min(a, b) == IF a < b THEN a ELSE b

RECURSIVE IsSubsequence(_, _)
\* s can be obtained from t by deleting entries
IsSubsequence(s, t) ==
  IF s = <<>> THEN TRUE
  ELSE IF t = <<>> THEN FALSE
  ELSE IF Head(s) = Head(t) THEN IsSubsequence(Tail(s), Tail(t))
  ELSE IsSubsequence(s, Tail(t))

\* C30: the curated history is a subsequence of the incoming history: the
\* retained messages keep their relative order, a retained call/result pair
\* stays where it was among the user and assistant messages
C30_OrderPreserved ==
  Curated => IsSubsequence(incomingMessages, clientHistory)


(* ------------------------- a long conversation ------------------------ *)
\* streamHandler.js:203-294, in a conversation of up to LongTurns turns in
\* which the user always sends a message
LongRequest == RequestStreamUpTo(LongTurns) /\ userInput' = "user_input"

\* streamHandler.js:324-329 and 447-450: the model answers with text, or
\* asks for one tracker operation of the catalog it was given
OneToolReply ==
  /\ ModelReplyUpTo(LongTurns)
  /\ Len(batch') <= 1
  /\ \A k \in 1 .. Len(batch') :
       /\ batch'[k].name = TRACKER
       /\ batch'[k].name \in tools.names
       /\ batch'[k].content = "valid_json"

\* an empty history, served by streamHandler.sendMessage
InitLong ==
  /\ handler = "streamHandler"
  /\ executorsFile = "executors.js"
  /\ clientHistory = <<>>
  /\ turn = 0
  /\ pc = "idle"
  /\ incomingMessages = <<>>
  /\ messages = <<>>
  /\ functionCalls = <<>>
  /\ batch = <<>>
  /\ lastToolName = ""
  /\ lastScryfallResult = -1
  /\ intent = 0
  /\ systemContent = ""
  /\ tools = UndefinedCatalog
  /\ lastCall = NoCall
  /\ classifierReply = ""
  /\ nextId = 1
  /\ round = 0
  /\ modelCalls = 0
  /\ executed = <<>>
  /\ tokenExchanges = 0
  /\ failure = ""
  /\ schemaLoad = "none"
  /\ userInput = ""
  /\ response = NoResponse
  /\ InitRace
  /\ InitNoTracker
  /\ modelOutput = NoOutput
  /\ InitNoSearch

\* turn after turn, the returned array resent as it is, no call failing
NextLong ==
  \/ LongRequest
  \/ OneToolReply
  \/ ExecTracker
  \/ Respond

SpecLong == InitLong /\ [][NextLong]_vars


(* ------------------------------ C29 ----------------------------------- *)
\* the entries of h that count: user, assistant, developer, function_call
\* and function_call_output
Counted(h) == Cardinality({i \in 1 .. Len(h) : h[i].role # "system"})

\* what a bounded, de-duplicated context could hold at the start of a turn:
\* the standing instruction, the retained user and assistant messages, one
\* call and one result per tool name, the new user message
ContextBound == Retain + 2 * Cardinality(ToolNames) + 2

\* C29: however many turns have been played with the returned array resent
\* as it is, the history handed to the model at the start of a turn holds
\* no more than a fixed number of entries
C29_BoundedContext ==
  lastCall.kind = "initial" => Counted(lastCall.input) <= ContextBound

\* the developer reminders in h, one pushed after each tracker operation
Reminders(h) == Cardinality({i \in 1 .. Len(h) : h[i] = TrackerDeveloperMsg})

\* no turn discards a reminder: the number of reminders in the returned
\* array never goes down from one turn to the next
C29_RemindersKept ==
  [][pc = "done" => Reminders(clientHistory') >= Reminders(clientHistory)]_vars


(* ------------------------------ C31 ----------------------------------- *)
\* h holds a scryfall_search call or the output of one
MentionsSearch(h) ==
  \E i \in 1 .. Len(h) :
     \/ IsCall(h[i]) /\ h[i].name = SCRYFALL
     \/ IsOutput(h[i]) /\ \E k \in 1 .. Len(h) : IsCall(h[k]) /\ h[k].name = SCRYFALL
                                                  /\ h[k].call_id = h[i].call_id

\* h holds the output of a search that returned at least one card
HasSearchResult(h) ==
  \E i \in 1 .. Len(h) : IsOutput(h[i]) /\ h[i].content \in {"summary_1", "summary_many"}

\* C31: in streamHandler.sendMessage the catalog of a model call holds the
\* tracker tools only if the incoming history mentions a scryfall_search or
\* a search of this turn returned at least one card; otherwise it is the
\* search-only catalog
C31_TrackerGated ==
  (handler = "streamHandler" /\ lastCall.kind \in {"initial", "followup"}) =>
     \/ MentionsSearch(incomingMessages)
     \/ HasSearchResult(lastCall.input)
     \/ lastCall.tools = Catalog(scryfallTool \cup vectorStoreTool)


(* ------------------------------ C32 ----------------------------------- *)
\* the outputs that report a failure to the model
ErrorShaped == {"status_error_message", "error_without_status"}

\* the loop goes through a call whose arguments are not valid JSON: it
\* stays in the turn, appends an error-shaped output for the call and goes
\* on with the rest of the batch
C32_Step ==
  (pc = "executing" /\ Head(functionCalls).content = "malformed") =>
     /\ pc' # "failed"
     /\ functionCalls' = Tail(functionCalls)
     /\ \E i \in 1 .. Len(messages') :
          /\ IsOutput(messages'[i])
          /\ messages'[i].call_id = Head(functionCalls).call_id
          /\ messages'[i].content \in ErrorShaped

\* C32: a function_call whose arguments string is not valid JSON is a tool
\* error, not a turn failure: the loop appends an error-shaped
\* function_call_output for it and goes on with the remaining calls; the
\* exception does not abort sendMessage
C32_MalformedIsToolError == [][C32_Step]_vars


(* ------------------------------ C33 ----------------------------------- *)
\* a model response is taken in: the working history grows by all of its
\* message items
C33_Step ==
  (pc = "awaiting_model" /\ pc' \in {"done", "executing"}) =>
     messages' = messages \o Repeat(ModelMessage, modelOutput'.messages)

\* C33: for every model response, initial or follow-up, every item of type
\* message of the response is appended to the working history, ahead of the
\* function calls of the same response (which the loop pushes one by one as
\* it executes them)
C33_AllMessageItemsKept == [][C33_Step]_vars


(* ------------------------ tracker_dynamic calls ------------------------ *)
\* The operations, arguments and response bodies one call is tried with.

\* the parameters an operation may declare, one per location
ParamDecls ==
  {[name |-> "id", in |-> "path"], [name |-> "qty", in |-> "query"],
   [name |-> "note", in |-> "header"]}

\* the properties a JSON body schema may declare
BodyKeys == {"id", "text"}

RequestBodies ==
  {[declared |-> FALSE, properties |-> {}]}
    \cup {[declared |-> TRUE, properties |-> b] : b \in SUBSET BodyKeys}

\* PUT /cards/{id}, with or without an operationId
CardOperations ==
  [operationId : {Undefined, <<"updateCard">>},
   method : {"put"},
   path : {<<"/", "cards", "/", "{", "id", "}">>},
   parameters : SUBSET ParamDecls,
   requestBody : RequestBodies]

\* GET /cards, listCards
ListOperation ==
  [operationId |-> <<"listCards">>, method |-> "get", path |-> <<"/", "cards">>,
   parameters |-> {[name |-> "qty", in |-> "query"]},
   requestBody |-> [declared |-> FALSE, properties |-> {}]]

\* the schemas: one operation, or listCards and one operation
Schemas == {<<o>> : o \in CardOperations} \cup {<<ListOperation, o>> : o \in CardOperations}

\* the arguments a model can supply for a descriptor: top-level keys among
\* the descriptor's properties, and possibly a body object with keys among
\* the properties of the operation's body schema
ArgsFor(paths, toolName) ==
  LET ds == TrackerDescriptors(paths)
      i == CHOOSE k \in 1 .. Len(ds) : ds[k].name = toolName
  IN  {ArgsOf(top, FALSE, {}) : top \in SUBSET ds[i].properties}
        \cup {ArgsOf(top, TRUE, keys) :
                top \in SUBSET {p.name : p \in paths[i].parameters},
                keys \in IF paths[i].requestBody.declared
                           THEN SUBSET paths[i].requestBody.properties ELSE {}}

\* the response bodies of the backend
ResponseBodies ==
  {NoBody, TextBody}
    \cup {[kind |-> "object", scryfall |-> s, name |-> "own", children |-> c] :
            s \in BOOLEAN, c \in [ChildKeys -> {PlainChild, CardChild, TextChild}]}

\* the model calls one of the descriptors fetchTrackerFunctions emitted
InitTracker ==
  /\ \E paths \in Schemas :
       \E i \in 1 .. Len(paths) :
         LET toolName == TrackerDescriptors(paths)[i].name
         IN  \E args \in ArgsFor(paths, toolName), body \in ResponseBodies,
                found \in IF paths[i].operationId = Undefined THEN BOOLEAN ELSE {TRUE} :
               trackerCall = [paths |-> paths, toolName |-> toolName, args |-> args,
                              body |-> body, found |-> found]
  /\ trackerResult = NoTrackerResult
  /\ handler = "gptAgent"
  /\ executorsFile = "executors.js"
  /\ clientHistory = <<>>
  /\ turn = MaxTurns
  /\ pc = "idle"
  /\ incomingMessages = <<>>
  /\ messages = <<>>
  /\ functionCalls = <<>>
  /\ batch = <<>>
  /\ lastToolName = ""
  /\ lastScryfallResult = -1
  /\ intent = 0
  /\ systemContent = ""
  /\ tools = UndefinedCatalog
  /\ lastCall = NoCall
  /\ classifierReply = ""
  /\ nextId = 1
  /\ round = 0
  /\ modelCalls = 0
  /\ executed = <<>>
  /\ tokenExchanges = 0
  /\ failure = ""
  /\ schemaLoad = "none"
  /\ userInput = ""
  /\ response = NoResponse
  /\ InitRace
  /\ InitNoSearch
  /\ modelOutput = NoOutput

\* executors.js:27-114: the call runs
trackerDynamic ==
  /\ ~trackerResult.done
  /\ trackerResult' = trackerDynamicResult(trackerCall)
  /\ UNCHANGED <<mainVars, raceVars, searchVars, modelOutput, trackerCall>>

NextTracker == trackerDynamic

SpecTracker == InitTracker /\ [][NextTracker]_vars


(* ------------------------------ C34 ----------------------------------- *)
\* the operation a call is about and what the call forwarded
CalledOp == trackerCall.paths[trackerResult.opSpec]
InParameters(k) == k \in trackerResult.parameters
InRequestBody(k) == trackerResult.requestBody.sent /\ k \in trackerResult.requestBody.keys
IsPathOrQuery(k) ==
  \E d \in CalledOp.parameters : d.name = k /\ d["in"] \in {"path", "query"}

\* C34: once tracker_dynamic has resolved the operation, every argument key
\* the model supplied is forwarded in exactly one place: as a parameter if
\* the operation declares it as a path or query parameter, in the request
\* body otherwise; the fields of a nested body object are forwarded in the
\* request body. No key is dropped and none is sent in both places.
C34_ArgumentPartition ==
  (trackerResult.done /\ trackerResult.opSpec # 0) =>
     /\ \A k \in trackerCall.args.top :
          IF IsPathOrQuery(k)
            THEN InParameters(k) /\ (trackerCall.args.body.given \/ ~InRequestBody(k))
            ELSE InRequestBody(k) /\ ~InParameters(k)
     /\ trackerCall.args.body.given =>
          \A k \in trackerCall.args.body.keys : InRequestBody(k)


(* ------------------------------ C35 ----------------------------------- *)
\* members of a response body that are objects with a scryfall sub-object
HasScryfall(o) == o.kind = "object" /\ o.scryfall

\* C35: for every response body that is an object, the message
\* tracker_dynamic returns has no scryfall sub-object at top level nor in
\* any direct child object, and wherever the response had one, the name of
\* the enclosing object is the name of that sub-object
C35_ScryfallCollapsed ==
  (trackerResult.done /\ trackerResult.status = "success"
     /\ trackerCall.body.kind = "object") =>
     /\ ~HasScryfall(trackerResult.message)
     /\ HasScryfall(trackerCall.body) => trackerResult.message.name = "scryfall"
     /\ \A k \in ChildKeys :
          /\ ~HasScryfall(trackerResult.message.children[k])
          /\ HasScryfall(trackerCall.body.children[k]) =>
               trackerResult.message.children[k].name = "scryfall"


(* ------------------------------ C36 ----------------------------------- *)
\* the operation whose descriptor the model called
DescribedOp ==
  CHOOSE i \in 1 .. Len(trackerCall.paths) :
    TrackerDescriptors(trackerCall.paths)[i].name = trackerCall.toolName

\* C36: every descriptor fetchTrackerFunctions emits can be dispatched:
\* tracker_dynamic called with its name resolves the parameter schema of
\* the operation the descriptor was made from and invokes that operation,
\* whether the name comes from an operationId or from method and path
C36_DescriptorsDispatch ==
  trackerResult.done =>
     /\ trackerResult.opSpec = DescribedOp
     /\ trackerResult.executed = DescribedOp


(* ------------------------------ C37 ----------------------------------- *)
\* the scryfall_search calls of a history
SearchCallsIn(h) == {i \in 1 .. Len(h) : IsCall(h[i]) /\ h[i].name = SCRYFALL}

\* at most one scryfall_search call, and its output after it
OneSearchPair(h) ==
  /\ Cardinality(SearchCallsIn(h)) <= 1
  /\ \A i \in SearchCallsIn(h) :
       \E j \in i + 1 .. Len(h) : IsOutput(h[j]) /\ h[j].call_id = h[i].call_id

\* the scryfall_search calls the loop has executed in the current batch
ExecutedSearches ==
  {k \in 1 .. Len(executed) :
     \E b \in Range(batch) : b.call_id = executed[k] /\ b.name = SCRYFALL}

\* the search call of h, if the batch executed searches, is the last of them
LatestSearch(h) ==
  ExecutedSearches # {} =>
     /\ SearchCallsIn(h) # {}
     /\ \A i \in SearchCallsIn(h) :
          h[i].call_id = executed[CHOOSE k \in ExecutedSearches :
                                     \A n \in ExecutedSearches : n <= k]

\* C37: in a conversation that starts from an empty history and whose client
\* resends each returned history as it is, every history passed to a model
\* call and every history returned holds at most one scryfall_search call,
\* with its output, and after a batch that executed searches it is the call
\* executed last
C37_OneSearchPair ==
  /\ OneSearchPair(clientHistory)
  /\ lastCall.kind # "none" => OneSearchPair(lastCall.input)
  /\ pc = "done" => OneSearchPair(messages) /\ LatestSearch(messages)
  /\ (pc = "awaiting_model" /\ lastCall.kind = "followup") => LatestSearch(lastCall.input)


\* a later turn has executed a search while the history the client sent
\* back held the pair of an earlier search, and the follow-up call is out
C37_Witness ==
  /\ pc = "awaiting_model"
  /\ lastCall.kind = "followup"
  /\ SearchCallsIn(clientHistory) # {}
  /\ ExecutedSearches # {}
  /\ Cardinality(SearchCallsIn(lastCall.input)) = 1
  /\ \A i \in SearchCallsIn(clientHistory) :
       ~HasId(lastCall.input, clientHistory[i].call_id)


(* ------------------------------ C38 ----------------------------------- *)
\* m, an entry of h, is a call of the tool name or the output of one
OfTool(h, m, name) ==
  \/ IsCall(m) /\ m.name = name
  \/ /\ IsOutput(m)
     /\ \E k \in 1 .. Len(h) :
          IsCall(h[k]) /\ h[k].name = name /\ h[k].call_id = m.call_id

\* the entries of h that are neither
NotOfTool(h, name) ==
  LET Other(m) == ~OfTool(h, m, name)
  IN  SelectSeq(h, Other)

C38_Step ==
  pc = "executing" =>
     IsSubsequence(NotOfTool(messages, Head(functionCalls).name), messages')

\* C38: while it executes a tool call the loop removes from the working
\* history only function_call and function_call_output entries of the tool
\* the call names: every system, developer, user and assistant entry and
\* every call and result of another tool stays, in the order they had
C38_PruneFrame == [][C38_Step]_vars

\* a tracker call has superseded the tracker pair the client sent back,
\* and the search pair that came with it is still in the working history
C38_Witness ==
  /\ Len(executed) > 0
  /\ SearchCallsIn(clientHistory) # {}
  /\ \A i \in SearchCallsIn(clientHistory) : clientHistory[i] \in Range(messages)
  /\ \E i \in 1 .. Len(clientHistory) :
       /\ IsCall(clientHistory[i])
       /\ clientHistory[i].name = TRACKER
       /\ ~HasId(messages, clientHistory[i].call_id)


====
